---- MODULE Spec2Model ----
(***************************************************************************)
(* Verification model of the WhoScored match-centre engine                 *)
(* (src/src/whoscored_viz/whoscored_matchcenter.py).                        *)
(*                                                                         *)
(* The engine is a chain of pure transformations, so each component gets   *)
(* its own specification over its own group of variables:                  *)
(*   SpecExtract  - _extract_balanced_object (brace-balanced scanner)      *)
(*   SpecLoad     - load_payload_from_html_text + process_one_match        *)
(*   SpecNorm     - to_dataframes (match record, players, events)          *)
(*   SpecEvents   - build_df_shots, build_df_passes_enriched               *)
(* Python indices are 0-based; sequences here are 1-based, so Python's     *)
(* text[a:b+1] is SubSeq(text, a+1, b+1).                                  *)
(***************************************************************************)
EXTENDS Integers, Sequences, FiniteSets, TLC

VARIABLES
    \* --- _extract_balanced_object ---
    text,        \* the scanned text (sequence of characters)
    start_idx,   \* 1-based index handed to the extractor
    result,      \* outcome of the call: [err, value]
    \* --- load_payload_from_html_text / process_one_match ---
    html,        \* the markup, as the features the regexes and parsers see
    pc,          \* position inside process_one_match
    loaded,      \* payload dict returned by load_payload_from_html_text
    raised,      \* exception that left process_one_match ("none" if none)
    saved,       \* TRUE once save_all_tables has been entered
    \* --- save_all_tables: normalisation and derived tables ---
    payload,     \* the payload dict handed to save_all_tables
    stage,       \* position inside save_all_tables
    df_match,    \* to_dataframes: match record table (sequence of rows)
    df_players,  \* to_dataframes: players table
    df_events,   \* to_dataframes: events table
    df_shots,    \* build_df_shots
    df_passes,   \* build_df_passes_enriched
    df_def,      \* build_df_defensive_actions
    df_gk,       \* build_df_gk_actions
    df_form,     \* build_formations_timelines: formation segments
    df_pos,      \* build_formations_timelines: player position slots
    df_score,    \* build_score_timeline
    df_form_scored, \* attach_score_to_formations
    failure,     \* exception that left save_all_tables ("none" if none)
    \* --- save_all_tables: the files it writes, over successive runs ---
    out_root,    \* output root of the current run
    runs,        \* number of runs started so far; also the clock of _now_iso
    files,       \* per output root: the table files of the match directory
    manifest,    \* per output root: manifest.json of the match directory
    history,     \* per output root: the payloads of the runs that wrote to it
    \* --- process_from_csv ---
    csv_rows,    \* the rows of the csv file
    limit,       \* the limit argument
    row_idx,     \* index of the row the loop is at
    attempts,    \* the rows process_one_match was called for, in call order
    results,     \* the results list
    bpc          \* position inside process_from_csv

exVars == <<text, start_idx, result>>
ldVars == <<html, pc, loaded, raised, saved>>
dvVars == <<df_def, df_gk, df_form, df_pos, df_score, df_form_scored, failure>>
tbVars == <<payload, stage, df_match, df_players, df_events, df_shots, df_passes,
            df_def, df_gk, df_form, df_pos, df_score, df_form_scored, failure>>
rnVars == <<out_root, runs, files, manifest, history>>
btVars == <<csv_rows, limit, row_idx, attempts, results, bpc>>
envVars == <<rnVars, btVars>>
vars == <<text, start_idx, result, html, pc, loaded, raised, saved,
          payload, stage, df_match, df_players, df_events, df_shots, df_passes,
          df_def, df_gk, df_form, df_pos, df_score, df_form_scored, failure,
          out_root, runs, files, manifest, history,
          csv_rows, limit, row_idx, attempts, results, bpc>>

\* Sentinel for a local that holds no character / no text yet.
None == "None#"

\* Values of the parsed JSON tree, tagged by their Python type.  A dict is
\* a function from its keys, a list a sequence; a float is held in
\* thousandths.
PyNone == [t |-> "none", v |-> 0]
PyInt(n) == [t |-> "int", v |-> n]
PyFloat(m) == [t |-> "float", v |-> m]
PyStr(s) == [t |-> "str", v |-> s]
PyList(q) == [t |-> "list", v |-> q]
PyDict(f) == [t |-> "dict", v |-> f]
PyBool(b) == [t |-> "bool", v |-> b]
\* A str holding the decimal text of the integer n, e.g. "12".
PyNumStr(n) == [t |-> "numstr", v |-> n]
EmptyDict == PyDict(<<>>)

\* Values of the variables of a component that a specification does not run.
IdleExtract == text = <<>> /\ start_idx = 0 /\ result = [err |-> "idle", value |-> <<>>]
IdleLoad == html = <<>> /\ pc = "idle" /\ loaded = <<>> /\ raised = "none" /\ saved = FALSE
NoDerived ==
    /\ df_def = <<>> /\ df_gk = <<>> /\ df_form = <<>> /\ df_pos = <<>>
    /\ df_score = <<>> /\ df_form_scored = <<>> /\ failure = "none"
IdleTables ==
    /\ payload = EmptyDict /\ stage = "idle"
    /\ df_match = <<>> /\ df_players = <<>> /\ df_events = <<>>
    /\ df_shots = <<>> /\ df_passes = <<>>
    /\ NoDerived
IdleRuns ==
    /\ out_root = "" /\ runs = 0
    /\ files = <<>> /\ manifest = <<>> /\ history = <<>>
IdleBatch ==
    /\ csv_rows = <<>> /\ limit = 0 /\ row_idx = 0
    /\ attempts = <<>> /\ results = <<>> /\ bpc = "idle"
IdleEnv == IdleRuns /\ IdleBatch

(***************************************************************************)
(* 4.1  Literal extractor: _extract_balanced_object                        *)
(***************************************************************************)
LBrace == "{"
RBrace == "}"
DQuote == "\""
SQuote == "'"
BSlash == "\\"
Plain  == "a"

\* The characters that the scanner distinguishes, plus one ordinary one.
Chars == {LBrace, RBrace, DQuote, SQuote, BSlash, Plain}

\* Longest text handed to the extractor.
MaxLen == 6

NoResult == [err |-> "pending", value |-> <<>>]
Returned(s) == [err |-> "none", value |-> s]
\* raise ValueError("No se pudo balancear llaves de objeto.")
ValueErrorUnbalanced == [err |-> "ValueError", value |-> <<>>]

\* The while loop of _extract_balanced_object, one iteration per unfolding.
\* i is the 1-based position of the character about to be read.
RECURSIVE ScanLoop(_, _, _, _, _, _, _)
ScanLoop(txt, start, i, depth, in_str, esc, quote) ==
    IF i > Len(txt) THEN ValueErrorUnbalanced
    ELSE LET ch == txt[i] IN
        IF in_str THEN
            IF esc THEN ScanLoop(txt, start, i + 1, depth, TRUE, FALSE, quote)
            ELSE IF ch = BSlash THEN ScanLoop(txt, start, i + 1, depth, TRUE, TRUE, quote)
            ELSE IF ch = quote THEN ScanLoop(txt, start, i + 1, depth, FALSE, esc, quote)
            ELSE ScanLoop(txt, start, i + 1, depth, in_str, esc, quote)
        ELSE
            IF ch = DQuote \/ ch = SQuote
                THEN ScanLoop(txt, start, i + 1, depth, TRUE, esc, ch)
            ELSE IF ch = LBrace
                THEN ScanLoop(txt, start, i + 1, depth + 1, in_str, esc, quote)
            ELSE IF ch = RBrace
                THEN IF depth - 1 = 0
                        THEN Returned(SubSeq(txt, start, i))
                        ELSE ScanLoop(txt, start, i + 1, depth - 1, in_str, esc, quote)
            ELSE ScanLoop(txt, start, i + 1, depth, in_str, esc, quote)

\* Mutant: the scanner does not track string literals at all.
ExtractIgnoringStrings(txt, start) ==
    LET RECURSIVE Loop(_, _)
        Loop(i, depth) ==
            IF i > Len(txt) THEN ValueErrorUnbalanced
            ELSE IF txt[i] = LBrace THEN Loop(i + 1, depth + 1)
            ELSE IF txt[i] = RBrace
                THEN IF depth - 1 = 0 THEN Returned(SubSeq(txt, start, i))
                     ELSE Loop(i + 1, depth - 1)
            ELSE Loop(i + 1, depth)
    IN Loop(start, 0)

\* Mutant: a backslash inside a string does not escape the next character.
ExtractIgnoringEscapes(txt, start) ==
    LET RECURSIVE Loop(_, _, _, _)
        Loop(i, depth, in_str, quote) ==
            IF i > Len(txt) THEN ValueErrorUnbalanced
            ELSE IF in_str
                THEN Loop(i + 1, depth, txt[i] # quote, quote)
            ELSE IF txt[i] = DQuote \/ txt[i] = SQuote THEN Loop(i + 1, depth, TRUE, txt[i])
            ELSE IF txt[i] = LBrace THEN Loop(i + 1, depth + 1, FALSE, quote)
            ELSE IF txt[i] = RBrace
                THEN IF depth - 1 = 0 THEN Returned(SubSeq(txt, start, i))
                     ELSE Loop(i + 1, depth - 1, FALSE, quote)
            ELSE Loop(i + 1, depth, FALSE, quote)
    IN Loop(start, 0, FALSE, None)

\* _extract_balanced_object(text, start_idx): i starts at start_idx with
\* depth 0, outside any string.
ExtractBalancedObject(txt, start) ==
    ScanLoop(txt, start, start, 0, FALSE, FALSE, None)

\* Every call site passes the index of the "{" that ends the marker regex
\* (m.end()-1), so the extractor is only ever started on an opening brace.
TextsOfLen(n) == [1..n -> Chars]

InitExtract ==
    /\ text \in UNION {TextsOfLen(n) : n \in 1..MaxLen}
    /\ start_idx \in {s \in 1..Len(text) : text[s] = LBrace}
    /\ result = NoResult
    /\ IdleLoad
    /\ IdleTables
    /\ IdleEnv

CallExtract ==
    /\ result = NoResult
    /\ result' = ExtractBalancedObject(text, start_idx)
    /\ UNCHANGED <<text, start_idx>>
    /\ UNCHANGED <<ldVars, tbVars, envVars>>

NextExtract == CallExtract

SpecExtract == InitExtract /\ [][NextExtract]_vars

(* ---- reference notions used to state the extractor's contract ---- *)

\* Number of consecutive backslashes immediately before position j that lie
\* after position p.
BackslashRun(txt, p, j) ==
    Cardinality({n \in 1..(j - p - 1) : \A m \in (j - n)..(j - 1) : txt[m] = BSlash})

\* Position of the unescaped quote closing the string opened at p; 0 if the
\* string is not terminated.
ClosingQuote(txt, p) ==
    LET cands == {j \in (p + 1)..Len(txt) :
                    txt[j] = txt[p] /\ BackslashRun(txt, p, j) % 2 = 0}
    IN IF cands = {} THEN 0 ELSE CHOOSE j \in cands : \A k \in cands : j <= k

\* Positions from p on that lie outside every quoted string.
RECURSIVE CodePositions(_, _)
CodePositions(txt, p) ==
    IF p > Len(txt) THEN {}
    ELSE IF txt[p] \in {DQuote, SQuote}
        THEN IF ClosingQuote(txt, p) = 0 THEN {}
             ELSE CodePositions(txt, ClosingQuote(txt, p) + 1)
    ELSE {p} \cup CodePositions(txt, p + 1)

\* Open braces minus close braces among the code positions of start..k.
BraceDepth(txt, start, k) ==
    LET code == CodePositions(txt, start) IN
    Cardinality({j \in start..k : j \in code /\ txt[j] = LBrace})
      - Cardinality({j \in start..k : j \in code /\ txt[j] = RBrace})

\* Position of the brace matching the opening brace at start; 0 if none.
MatchingBrace(txt, start) ==
    LET code == CodePositions(txt, start)
        cands == {k \in start..Len(txt) :
                    k \in code /\ txt[k] = RBrace /\ BraceDepth(txt, start, k) = 0}
    IN IF cands = {} THEN 0 ELSE CHOOSE k \in cands : \A m \in cands : k <= m

\* C1: started on an opening brace that has a properly nested matching
\* closing brace (braces inside quoted strings not counted, a backslash
\* inside a string escaping the next character), the extractor returns
\* exactly the substring from that opening brace to the matching brace.
C1_ExtractReturnsBalancedSubstring ==
    (result # NoResult /\ MatchingBrace(text, start_idx) # 0)
        => result = Returned(SubSeq(text, start_idx, MatchingBrace(text, start_idx)))

\* C1 witness: a string that holds an escaped quote of its own kind lies
\* inside the braces, and the whole object was returned.
C1_Witness ==
    /\ result # NoResult
    /\ MatchingBrace(text, start_idx) # 0
    /\ result = Returned(SubSeq(text, start_idx, MatchingBrace(text, start_idx)))
    /\ \E p \in (start_idx + 1)..Len(text) :
            /\ text[p] \in {DQuote, SQuote}
            /\ \A q \in start_idx..(p - 1) : q \in CodePositions(text, start_idx)
            /\ ClosingQuote(text, p) # 0
            /\ ClosingQuote(text, p) < MatchingBrace(text, start_idx)
            /\ \E j \in (p + 1)..(ClosingQuote(text, p) - 1) : text[j] = text[p]

\* C2: when the scan reaches the end of the input without the brace depth
\* returning to zero (also when the input ends inside an unterminated
\* string), the call fails with an error and returns no partial substring.
C2_UnbalancedFails ==
    (result # NoResult /\ MatchingBrace(text, start_idx) = 0)
        => result = ValueErrorUnbalanced

\* C2 witness: the input ends inside an unterminated string that holds a
\* closing brace, and the call has failed.
C2_Witness ==
    /\ result = ValueErrorUnbalanced
    /\ \E p \in (start_idx + 1)..Len(text) :
            /\ text[p] \in {DQuote, SQuote}
            /\ ClosingQuote(text, p) = 0
            /\ \A q \in start_idx..(p - 1) : q \in CodePositions(text, start_idx)
            /\ \E k \in (p + 1)..Len(text) : text[k] = RBrace

(***************************************************************************)
(* 4.1  Payload loader: load_payload_from_html_text, process_one_match     *)
(*                                                                         *)
(* The markup is described by what the loader's regexes and parsers see:   *)
(*   args     the text from the "{" ending require.config.params["args"]=  *)
(*            (<<>> when that marker is absent); it is scanned by the      *)
(*            real extractor above                                         *)
(*   mid      the digits after "matchId:" inside the args object           *)
(*   mcd, evt, formdict                                                    *)
(*            state of the named literal inside the args object            *)
(*   tl       per embedded timeline key: state of its array                *)
(*   legacy   state of "var matchCentreData = {...}; var "                 *)
(***************************************************************************)
ArgsLiterals ==
    { <<>>,
      <<LBrace, RBrace>>,
      <<LBrace, SQuote, RBrace, SQuote, RBrace>>,
      <<LBrace, SQuote, RBrace>>,
      <<LBrace, LBrace, RBrace>> }

LiteralStates == {"absent", "unbalanced", "badjson", "ok"}
TimelineKeys == {"scoreTimelineJson", "formationsTimelineJson"}

\* Match ids that "matchId: <digits>" can carry.
MatchIds == {0, 7}

Htmls ==
    [ args : ArgsLiterals,
      mid : {PyNone} \cup {PyInt(n) : n \in MatchIds},
      mcd : LiteralStates,
      evt : LiteralStates,
      formdict : LiteralStates,
      tl : [TimelineKeys -> {"absent", "badjson", "ok"}],
      legacy : {"absent", "badjson", "ok"} ]

\* payload: Dict[str, Any] = {}   (a key holding "absent"/PyNone is not set)
EmptyPayload ==
    [ matchId |-> PyNone,
      matchCentreData |-> "absent",
      matchCentreEventType |-> "absent",
      formationIdNameDictionary |-> "absent",
      timelines |-> {} ]

\* Python truthiness of the payload dict: it has at least one key.
PayloadNonEmpty(p) == p # EmptyPayload

LoadOk(p) == [err |-> "none", payload |-> p]
LoadRaises(e) == [err |-> e, payload |-> EmptyPayload]

\* One "m = re.search(key : {...); raw = _extract_balanced_object(...);
\* payload[key] = json.loads(raw)" block; r is the outcome so far.
NamedLiteral(r, state, key) ==
    IF r.err # "none" THEN r
    ELSE IF state = "absent" THEN r
    ELSE IF state = "unbalanced" THEN LoadRaises("ValueError")
    ELSE IF state = "badjson" THEN LoadRaises("JSONDecodeError")
    ELSE LoadOk([r.payload EXCEPT ![key] = "primary"])

\* The "if m_args:" block.
PrimaryPath(h) ==
    IF h.args = <<>> THEN LoadOk(EmptyPayload)
    ELSE IF ExtractBalancedObject(h.args, 1).err # "none" THEN LoadRaises("ValueError")
    ELSE
        LET r0 == LoadOk([EmptyPayload EXCEPT !.matchId = h.mid])
            r1 == NamedLiteral(r0, h.mcd, "matchCentreData")
            r2 == NamedLiteral(r1, h.evt, "matchCentreEventType")
            r3 == NamedLiteral(r2, h.formdict, "formationIdNameDictionary")
        IN IF r3.err # "none" THEN r3
           ELSE LoadOk([r3.payload EXCEPT
                    !.timelines = {k \in TimelineKeys : h.tl[k] = "ok"}])

\* Mutant: a failure of the primary path is swallowed and the legacy
\* marker is tried next.
LegacyFallbackAfterAnyFailure(r, h) ==
    LET p == IF r.err = "none" THEN r.payload ELSE EmptyPayload IN
    IF p.matchCentreData # "absent" THEN LoadOk(p)
    ELSE IF h.legacy = "absent" THEN LoadOk(p)
    ELSE IF h.legacy = "badjson" THEN LoadRaises("JSONDecodeError")
    ELSE LoadOk([p EXCEPT !.matchCentreData = "legacy"])

\* The 'if "matchCentreData" not in payload:' block; it is reached only
\* when nothing before it raised.
LegacyFallback(r, h) ==
    IF r.err # "none" THEN r
    ELSE IF r.payload.matchCentreData # "absent" THEN r
    ELSE IF h.legacy = "absent" THEN r
    ELSE IF h.legacy = "badjson" THEN LoadRaises("JSONDecodeError")
    ELSE LoadOk([r.payload EXCEPT !.matchCentreData = "legacy"])

load_payload_from_html_text(h) == LegacyFallback(PrimaryPath(h), h)

\* Mutant: process_one_match hands whatever it loaded to save_all_tables.
PayloadAlwaysUsable(p) == TRUE

\* not (not payload or "matchCentreData" not in payload)
PayloadUsable(p) == PayloadNonEmpty(p) /\ p.matchCentreData # "absent"

InitLoad ==
    /\ IdleExtract
    /\ IdleTables
    /\ IdleEnv
    /\ html \in Htmls
    /\ pc = "start"
    /\ loaded = EmptyPayload
    /\ raised = "none"
    /\ saved = FALSE

\* payload = load_payload_from_html_text(html)
LoadStep ==
    /\ pc = "start"
    /\ LET r == load_payload_from_html_text(html) IN
        IF r.err = "none"
            THEN pc' = "loaded" /\ loaded' = r.payload /\ raised' = "none"
            ELSE pc' = "raised" /\ loaded' = loaded /\ raised' = r.err
    /\ UNCHANGED <<html, saved>>
    /\ UNCHANGED <<exVars, tbVars, envVars>>

\* raise RuntimeError("No se pudo extraer matchCentreData del HTML.")
RaiseNoPayload ==
    /\ pc = "loaded"
    /\ ~PayloadUsable(loaded)
    /\ pc' = "raised"
    /\ raised' = "RuntimeError"
    /\ UNCHANGED <<html, loaded, saved>>
    /\ UNCHANGED <<exVars, tbVars, envVars>>

\* return save_all_tables(payload, out_root=out_root)
EnterSave ==
    /\ pc = "loaded"
    /\ PayloadUsable(loaded)
    /\ pc' = "saving"
    /\ saved' = TRUE
    /\ UNCHANGED <<html, loaded, raised>>
    /\ UNCHANGED <<exVars, tbVars, envVars>>

NextLoad == LoadStep \/ RaiseNoPayload \/ EnterSave

SpecLoad == InitLoad /\ [][NextLoad]_vars

NoMarker(h) == h.args = <<>> /\ h.legacy = "absent"

\* C3: markup with neither the primary marker nor the legacy marker makes
\* process_one_match fail with the payload-not-found RuntimeError, and
\* save_all_tables is never entered (no table is built or written).
C3_NoMarkerFailsBeforeTables ==
    NoMarker(html) =>
        /\ ~saved
        /\ pc \in {"start", "loaded", "raised"}
        /\ (pc = "loaded" => ENABLED RaiseNoPayload /\ ~ENABLED EnterSave)
        /\ (pc = "raised" => raised = "RuntimeError")

C3_Witness ==
    NoMarker(html) /\ pc = "raised" /\ raised = "RuntimeError" /\ ~saved

\* The primary path produced the match data.
PrimaryYieldsMatchData(h) ==
    /\ h.args # <<>>
    /\ MatchingBrace(h.args, 1) # 0
    /\ h.mcd = "ok"

\* C4: whenever the primary path does not produce the match data (marker
\* absent, literal unbalanced, literal unparseable) the legacy path is
\* attempted, so the extraction fails only if the legacy path fails too.
C4_FallbackTriedWheneverPrimaryFails ==
    (pc = "raised" /\ ~PrimaryYieldsMatchData(html)) => html.legacy # "ok"

\* The primary path ends without raising and without match data.
PrimarySilent(h) ==
    \/ h.args = <<>>
    \/ /\ MatchingBrace(h.args, 1) # 0
       /\ h.mcd = "absent"
       /\ h.evt \in {"absent", "ok"}
       /\ h.formdict \in {"absent", "ok"}

\* The primary args object or its matchCentreData literal is unbalanced or
\* unparseable.
PrimaryBroken(h) ==
    /\ h.args # <<>>
    /\ \/ MatchingBrace(h.args, 1) = 0
       \/ h.mcd \in {"unbalanced", "badjson"}

\* C4 (amended): the legacy path is attempted exactly when the primary path
\* ends without raising and without match data (marker absent, or a balanced
\* args object with no matchCentreData literal); the extraction then fails
\* only if the legacy path fails too.  An unbalanced or unparseable primary
\* literal raises at once and the legacy path is not attempted.
C4_FallbackOnlyWhenPrimarySilent ==
    pc # "start" =>
        /\ (PrimarySilent(html) /\ html.legacy = "ok") =>
                (pc \in {"loaded", "saving"} /\ loaded.matchCentreData = "legacy")
        /\ (PrimarySilent(html) /\ pc = "raised") => html.legacy # "ok"
        /\ PrimaryBroken(html) =>
                (pc = "raised" /\ raised \in {"ValueError", "JSONDecodeError"}
                    /\ loaded.matchCentreData = "absent")

\* C4 witness: the args object is there and balanced but holds no match
\* data, and the legacy literal supplied it.
C4_Witness ==
    /\ html.args # <<>>
    /\ PrimarySilent(html)
    /\ pc = "saving"
    /\ loaded.matchCentreData = "legacy"

(***************************************************************************)
(* Python value semantics used by the normaliser                            *)
(***************************************************************************)
\* d.get(k): None for a missing key.
Get(d, k) == IF d.t = "dict" /\ k \in DOMAIN d.v THEN d.v[k] ELSE PyNone

\* Truth value of a Python object.
Truthy(x) ==
    CASE x.t = "none" -> FALSE
      [] x.t = "bool" -> x.v
      [] x.t = "int" -> x.v # 0
      [] x.t = "float" -> x.v # 0
      [] x.t = "str" -> x.v # ""
      [] x.t = "numstr" -> TRUE
      [] x.t = "list" -> Len(x.v) > 0
      [] x.t = "dict" -> DOMAIN x.v # {}

\* a or b
PyOr(a, b) == IF Truthy(a) THEN a ELSE b

\* pd.isna(x) / Series.notna(): a null cell.
IsNull(x) == x.t = "none"

\* (s or "").strip() or None, for names that carry no inner padding: only
\* the all-blank names change under strip().
StripOrNone(x) ==
    LET s == PyOr(x, PyStr("")) IN
    IF s.v \in {"", " "} THEN PyNone ELSE s

\* Decimal digits, for int(k) and str(n) on rating timestamps.  A key is a
\* sequence of characters.
DigitChars == <<"0", "1", "2", "3", "4", "5", "6", "7", "8", "9">>
IsDigit(c) == \E d \in 1..10 : DigitChars[d] = c
DigitVal(c) == (CHOOSE d \in 1..10 : DigitChars[d] = c) - 1

\* int(k) succeeds (keys here carry no sign, blanks or underscores).
IsIntText(k) == Len(k) > 0 /\ \A i \in 1..Len(k) : IsDigit(k[i])

\* int(k)
RECURSIVE ParseInt(_)
ParseInt(k) ==
    IF Len(k) = 0 THEN 0
    ELSE 10 * ParseInt(SubSeq(k, 1, Len(k) - 1)) + DigitVal(k[Len(k)])

\* str(n) for n >= 0: the canonical decimal text.
RECURSIVE StrOfInt(_)
StrOfInt(n) ==
    IF n < 10 THEN <<DigitChars[n + 1]>>
    ELSE Append(StrOfInt(n \div 10), DigitChars[(n % 10) + 1])

\* round(x, 2) on a value held in thousandths (no exact ties arise here).
Round2(m) == IF m % 10 < 5 THEN m - (m % 10) ELSE m - (m % 10) + 10

SetMax(S) == CHOOSE x \in S : \A y \in S : y <= x

(***************************************************************************)
(* 4.2  Relational normaliser: to_dataframes                               *)
(***************************************************************************)
\* mcd = payload.get("matchCentreData") or {}
McdOf(p) == PyOr(Get(p, "matchCentreData"), EmptyDict)

\* match_id = payload.get("matchId") or mcd.get("matchId")
MatchIdOf(p) == PyOr(Get(p, "matchId"), Get(McdOf(p), "matchId"))

MatchRow(p) ==
    LET mcd == McdOf(p)
        home == PyOr(Get(mcd, "home"), EmptyDict)
        away == PyOr(Get(mcd, "away"), EmptyDict)
        status == PyOr(Get(mcd, "status"), EmptyDict)
    IN [ match_id |-> MatchIdOf(p),
         home_team_id |-> Get(home, "teamId"),
         home_name |-> Get(home, "name"),
         away_team_id |-> Get(away, "teamId"),
         away_name |-> Get(away, "name"),
         venue |-> StripOrNone(Get(mcd, "venueName")),
         attendance |-> Get(mcd, "attendance"),
         referee |-> IF Get(mcd, "referee").t = "dict"
                        THEN Get(PyOr(Get(mcd, "referee"), EmptyDict), "name")
                        ELSE Get(mcd, "referee"),
         start_time |-> Get(mcd, "startTime"),
         elapsed |-> PyOr(Get(status, "displayStatus"), Get(mcd, "elapsed")),
         score |-> Get(mcd, "score"),
         ht_score |-> Get(mcd, "htScore"),
         ft_score |-> Get(mcd, "ftScore"),
         status_code |-> PyOr(Get(status, "value"), Get(mcd, "statusCode")) ]

\* float(x) raises for None and for non-numeric text.
IsNumber(x) == x.t \in {"float", "int"}
Thousandths(x) == IF x.t = "int" THEN 1000 * x.v ELSE x.v

\* The rating block of _players: keys = [int(k) ...]; last = str(max(keys));
\* rating = round(float(ratings.get(last)), 2); any exception gives None.
RatingOf(stats) ==
    LET ratings == PyOr(Get(stats, "ratings"), EmptyDict) IN
    IF ratings.t = "dict" /\ Truthy(ratings)
        THEN IF \E k \in DOMAIN ratings.v : ~IsIntText(k) THEN PyNone
             ELSE LET last == StrOfInt(SetMax({ParseInt(k) : k \in DOMAIN ratings.v}))
                      v == Get(ratings, last)
                  IN IF IsNumber(v) THEN PyFloat(Round2(Thousandths(v))) ELSE PyNone
        ELSE PyNone

PlayerRow(pl, T, side, match_id) ==
    [ match_id |-> match_id,
      team_side |-> PyStr(side),
      team_id |-> Get(T, "teamId"),
      team_name |-> Get(T, "name"),
      player_id |-> Get(pl, "playerId"),
      player_name |-> Get(pl, "name"),
      isFirstEleven |-> Get(pl, "isFirstEleven"),
      position |-> Get(pl, "position"),
      shirtNo |-> Get(pl, "shirtNo"),
      height |-> Get(pl, "height"),
      weight |-> Get(pl, "weight"),
      age |-> Get(pl, "age"),
      rating |-> RatingOf(PyOr(Get(pl, "stats"), EmptyDict)),
      isManOfTheMatch |-> Get(pl, "isManOfTheMatch") ]

\* _players(side)
PlayersOfSide(p, side) ==
    LET T == PyOr(Get(McdOf(p), side), EmptyDict)
        plist == PyOr(Get(T, "players"), PyList(<<>>)).v
    IN [i \in 1..Len(plist) |-> PlayerRow(plist[i], T, side, MatchIdOf(p))]

EventRow(ev, match_id) ==
    LET t == PyOr(Get(ev, "type"), EmptyDict)
        o == PyOr(Get(ev, "outcomeType"), EmptyDict)
    IN [ match_id |-> match_id,
         eventId |-> PyOr(Get(ev, "eventId"), Get(ev, "id")),
         minute |-> Get(ev, "minute"),
         second |-> Get(ev, "second"),
         expandedMinute |-> Get(ev, "expandedMinute"),
         period |-> Get(PyOr(Get(ev, "period"), EmptyDict), "value"),
         teamId |-> Get(ev, "teamId"),
         playerId |-> Get(ev, "playerId"),
         x |-> Get(ev, "x"),
         y |-> Get(ev, "y"),
         endX |-> Get(ev, "endX"),
         endY |-> Get(ev, "endY"),
         typeValue |-> Get(t, "value"),
         typeName |-> Get(t, "displayName"),
         outcomeValue |-> Get(o, "value"),
         outcomeName |-> Get(o, "displayName"),
         relatedEventId |-> Get(ev, "relatedEventId"),
         qualifiers |-> Get(ev, "qualifiers") ]

\* Mutant: the type object is indexed directly, so an event without one is
\* lost instead of yielding a null field.
EventRowsRequiringType(p) ==
    LET evs == PyOr(Get(McdOf(p), "events"), PyList(<<>>)).v
        kept == SelectSeq(evs, LAMBDA ev : Truthy(Get(ev, "type")))
    IN [i \in 1..Len(kept) |-> EventRow(kept[i], MatchIdOf(p))]

\* for ev in (mcd.get("events") or []): ev_rows.append({...})
EventRows(p) ==
    LET evs == PyOr(Get(McdOf(p), "events"), PyList(<<>>)).v
    IN [i \in 1..Len(evs) |-> EventRow(evs[i], MatchIdOf(p))]

\* df_match, df_players, df_events = to_dataframes(payload)
Normalize ==
    /\ stage = "start"
    /\ stage' = "normalized"
    /\ df_match' = <<MatchRow(payload)>>
    /\ df_players' = PlayersOfSide(payload, "home") \o PlayersOfSide(payload, "away")
    /\ df_events' = EventRows(payload)
    /\ UNCHANGED <<payload, df_shots, df_passes>>
    /\ UNCHANGED <<exVars, ldVars, dvVars, envVars>>

(* ---- payloads handed to the normaliser ---- *)

\* Marks a key left out of a dict under construction.
Missing == [t |-> "missing", v |-> 0]
Entry(k, val) == IF val = Missing THEN <<>> ELSE (k :> val)
SeqsUpTo(U, n) == UNION {[1..k -> U] : k \in 0..n}

\* Most players / rating timestamps / events of a normaliser payload.
MaxPlayers == 1
MaxRatingKeys == 2
MaxNormEvents == 2

\* Rating timestamps as they may be spelled, and rating values.
RatingKeys == { <<"7">>, <<"0", "7">>, <<"1", "2">>, <<"x">> }
RatingValues == { PyFloat(6789), PyFloat(7120), PyStr("n/a") }
RatingDicts ==
    UNION { [K -> RatingValues] :
                K \in {K \in SUBSET RatingKeys : Cardinality(K) <= MaxRatingKeys} }

PlayerWith(stats) ==
    PyDict(("playerId" :> PyInt(1)) @@ ("name" :> PyStr("A. Player"))
            @@ ("shirtNo" :> PyInt(9)) @@ Entry("stats", stats))
NormPlayers ==
    { PlayerWith(st) :
        st \in {Missing, EmptyDict} \cup {PyDict("ratings" :> PyDict(R)) : R \in RatingDicts} }
AwayPlayer == PyDict(("playerId" :> PyInt(2)) @@ ("name" :> PyStr("B. Player")))

TeamOf(tid, name, players) ==
    PyDict(("teamId" :> PyInt(tid)) @@ ("name" :> PyStr(name))
            @@ ("players" :> PyList(players)))

\* Events with keys missing in the ways the normaliser guards against.
NormEvents ==
    { PyDict(("eventId" :> PyInt(1)) @@ ("teamId" :> PyInt(10)) @@ ("expandedMinute" :> PyInt(5))
             @@ ("type" :> PyDict(("value" :> PyInt(1)) @@ ("displayName" :> PyStr("Pass"))))
             @@ ("outcomeType" :> PyDict(("value" :> PyInt(1)) @@ ("displayName" :> PyStr("Successful"))))
             @@ ("period" :> PyDict(("value" :> PyInt(1)) @@ ("displayName" :> PyStr("FirstHalf"))))
             @@ ("qualifiers" :> PyList(<<>>))),
      PyDict(("id" :> PyInt(2)) @@ ("teamId" :> PyInt(20))),
      PyDict(("eventId" :> PyInt(0)) @@ ("id" :> PyInt(3)) @@ ("type" :> PyNone)
             @@ ("outcomeType" :> PyDict(("value" :> PyInt(0)))) @@ ("x" :> PyFloat(50500))),
      EmptyDict,
      PyDict(("eventId" :> PyInt(4)) @@ ("type" :> PyDict(("value" :> PyInt(16))))
             @@ ("period" :> EmptyDict)) }

NormPayload(top, inner, home, away, events) ==
    PyDict(Entry("matchId", top)
        @@ ("matchCentreData" :> PyDict(
                Entry("matchId", inner)
                @@ ("home" :> TeamOf(10, "Home FC", home))
                @@ ("away" :> TeamOf(20, "Away FC", away))
                @@ ("venueName" :> PyStr(" "))
                @@ Entry("events", events))))

NormPayloads ==
    { NormPayload(top, inner, <<>>, <<>>, PyList(evs)) :
        top \in {Missing, PyInt(0), PyInt(7)},
        inner \in {Missing, PyNone, PyInt(9)},
        evs \in SeqsUpTo(NormEvents, MaxNormEvents) }
    \cup
    { NormPayload(PyInt(7), Missing, home, away, Missing) :
        home \in SeqsUpTo(NormPlayers, MaxPlayers),
        away \in SeqsUpTo({AwayPlayer}, 1) }

InitTables(p) ==
    /\ IdleEnv
    /\ payload = p
    /\ stage = "start"
    /\ df_match = <<>> /\ df_players = <<>> /\ df_events = <<>>
    /\ df_shots = <<>> /\ df_passes = <<>>
    /\ NoDerived

InitNorm ==
    /\ IdleExtract
    /\ IdleLoad
    /\ \E p \in NormPayloads : InitTables(p)

NextNorm == Normalize

SpecNorm == InitNorm /\ [][NextNorm]_vars

\* The match id is absent (missing or null) at both levels of the payload.
MatchIdAbsent(p) ==
    IsNull(Get(p, "matchId")) /\ IsNull(Get(Get(p, "matchCentreData"), "matchId"))

\* C5: normalisation fails when the match id is absent from both the
\* payload's top level and the match data (no MatchRecord is produced), and
\* no MatchRecord ever carries a null match id.
C5_AbsentMatchIdFails ==
    stage = "normalized" =>
        /\ MatchIdAbsent(payload) => df_match = <<>>
        /\ \A i \in 1..Len(df_match) : ~IsNull(df_match[i].match_id)

\* The raw event list of the payload.
SourceEvents(p) ==
    LET evs == Get(Get(p, "matchCentreData"), "events")
    IN IF evs.t = "list" THEN evs.v ELSE <<>>

PassThroughKeys ==
    { "minute", "second", "expandedMinute", "teamId", "playerId",
      "x", "y", "endX", "endY", "relatedEventId", "qualifiers" }

\* The field under key k of the object under key o of ev; null when either
\* key is missing.
Nested(ev, o, k) ==
    IF o \in DOMAIN ev.v /\ ev.v[o].t = "dict" /\ k \in DOMAIN ev.v[o].v
        THEN ev.v[o].v[k] ELSE PyNone

\* C6: the events table has exactly one row per entry of the source event
\* list, in source order; a key missing from an event (also a missing type,
\* outcome or period object) gives a null field in its row.
C6_EventsRowPerEntryNullSafe ==
    stage = "normalized" =>
        LET src == SourceEvents(payload) IN
        /\ Len(df_events) = Len(src)
        /\ \A i \in 1..Len(src) :
            /\ \A k \in PassThroughKeys :
                    df_events[i][k] = IF k \in DOMAIN src[i].v THEN src[i].v[k] ELSE PyNone
            /\ df_events[i].typeName = Nested(src[i], "type", "displayName")
            /\ df_events[i].typeValue = Nested(src[i], "type", "value")
            /\ df_events[i].outcomeName = Nested(src[i], "outcomeType", "displayName")
            /\ df_events[i].outcomeValue = Nested(src[i], "outcomeType", "value")
            /\ df_events[i].period = Nested(src[i], "period", "value")
            /\ df_events[i].eventId =
                    IF "eventId" \in DOMAIN src[i].v /\ Truthy(src[i].v["eventId"])
                        THEN src[i].v["eventId"]
                    ELSE IF "id" \in DOMAIN src[i].v THEN src[i].v["id"] ELSE PyNone

\* C6 witness: an event without a type object sits before one with a type,
\* and the table holds both rows in that order, the first with a null type.
C6_Witness ==
    /\ stage = "normalized"
    /\ Len(df_events) = 2
    /\ "type" \notin DOMAIN SourceEvents(payload)[1].v
    /\ IsNull(df_events[1].typeName)
    /\ df_events[2].typeName = PyStr("Pass")

\* The raw rating-by-timestamp mapping of a player.
RawRatings(pl) ==
    LET r == Get(Get(pl, "stats"), "ratings") IN IF r.t = "dict" THEN r.v ELSE <<>>

HomePlayers(p) == Get(Get(Get(p, "matchCentreData"), "home"), "players").v

\* C7: a player whose rating mapping is non-empty with keys that all read
\* as integers gets the value stored under the numerically largest
\* timestamp (to two decimals); an empty or malformed mapping gives null.
C7_RatingUnderLargestTimestamp ==
    stage = "normalized" =>
        \A i \in 1..Len(HomePlayers(payload)) :
            LET R == RawRatings(HomePlayers(payload)[i]) IN
            IF DOMAIN R # {} /\ \A k \in DOMAIN R : IsIntText(k)
                THEN LET top == SetMax({ParseInt(k) : k \in DOMAIN R})
                         topKeys == {k \in DOMAIN R : ParseInt(k) = top}
                     IN (\E k \in topKeys : IsNumber(R[k])) =>
                            \E k \in topKeys :
                                /\ IsNumber(R[k])
                                /\ df_players[i].rating = PyFloat(Round2(Thousandths(R[k])))
                ELSE IsNull(df_players[i].rating)

(***************************************************************************)
(* 4.3  Event classifier: qualifier accessors, shots, passes               *)
(***************************************************************************)
\* _safe_int(x): None for null and for text that is no number.
SafeInt(x) ==
    CASE x.t = "int" -> x
      [] x.t = "numstr" -> PyInt(x.v)
      [] x.t = "float" -> PyInt(x.v \div 1000)
      [] x.t = "bool" -> PyInt(IF x.v THEN 1 ELSE 0)
      [] OTHER -> PyNone

\* _safe_float(x): None for null, for non-numeric text and for containers.
SafeFloat(x) ==
    CASE x.t = "float" -> x
      [] x.t = "int" -> PyFloat(1000 * x.v)
      [] x.t = "numstr" -> PyFloat(1000 * x.v)
      [] x.t = "bool" -> PyFloat(IF x.v THEN 1000 ELSE 0)
      [] OTHER -> PyNone

\* str(x) of a text-or-None cell.
StrOf(x) == IF x.t = "none" THEN "None" ELSE x.v

\* (qs or [])
QList(qs) == IF Truthy(qs) THEN qs.v ELSE <<>>

\* (q.get("type") or {}).get("displayName")
QName(q) == Get(PyOr(Get(q, "type"), EmptyDict), "displayName")

\* _q_has(qs, name)
q_has(qs, name) == \E i \in 1..Len(QList(qs)) : QName(QList(qs)[i]) = PyStr(name)

\* _q_get_any(qs, names): the value of the first qualifier named in names.
q_get_any(qs, names) ==
    LET L == QList(qs)
        hits == {i \in 1..Len(L) : QName(L[i]).t = "str" /\ QName(L[i]).v \in names}
    IN IF hits = {} THEN PyNone
       ELSE Get(L[CHOOSE i \in hits : \A j \in hits : i <= j], "value")

\* _q_get(qs, name)
q_get(qs, name) == q_get_any(qs, {name})

SHOT_TYPES ==
    {"Shot", "Goal", "MissedShots", "SavedShot", "ShotOnPost", "BlockedShot", "OwnGoal"}

RelatedPassAliases ==
    {"KeyPass", "Assist", "GoalAssist", "IntentionalGoalAssist", "IntentionalAssist",
     "AssistPassId"}

\* Mutant: only the type tag decides what is a shot.
IsShotRowByTypeOnly(row) == StrOf(row.typeName) \in SHOT_TYPES

\* build_df_shots.is_shot_row
is_shot_row(row) ==
    \/ StrOf(row.typeName) \in SHOT_TYPES
    \/ ~IsNull(q_get(row.qualifiers, "GoalMouthY"))
    \/ ~IsNull(q_get(row.qualifiers, "GoalMouthZ"))
    \/ q_has(row.qualifiers, "ShotType")

\* "Saved" in out, "Off Target" in out, "Missed" in out: outcome texts are
\* atoms here, so each substring test lists the texts that contain it.
OutcomeTexts == {"Successful", "Unsuccessful", "Shot Saved", "Off Target", "Missed Chance"}
ContainsSaved(out) == out \in {"Shot Saved"}
ContainsOffTarget(out) == out \in {"Off Target"}
ContainsMissed(out) == out \in {"Missed Chance"}

\* Mutant: what no rule matches is reported as Unknown.
ShotOutcomeClosedSet(row) ==
    LET t == StrOf(row.typeName)
        out == StrOf(PyOr(row.outcomeName, PyStr("")))
    IN IF t = "Goal" \/ q_has(row.qualifiers, "Goal") THEN "Goal"
       ELSE IF t = "BlockedShot" \/ q_has(row.qualifiers, "BlockedPass") THEN "Blocked"
       ELSE IF t = "SavedShot" \/ ContainsSaved(out) THEN "Saved"
       ELSE IF t = "ShotOnPost" \/ q_has(row.qualifiers, "HitWoodWork") THEN "Post"
       ELSE IF t = "MissedShots" \/ ContainsOffTarget(out) \/ ContainsMissed(out) THEN "Missed"
       ELSE "Unknown"

\* build_df_shots.shot_outcome
shot_outcome(row) ==
    LET t == StrOf(row.typeName)
        out == StrOf(PyOr(row.outcomeName, PyStr("")))
    IN IF t = "Goal" \/ q_has(row.qualifiers, "Goal") THEN "Goal"
       ELSE IF t = "BlockedShot" \/ q_has(row.qualifiers, "BlockedPass") THEN "Blocked"
       ELSE IF t = "SavedShot" \/ ContainsSaved(out) THEN "Saved"
       ELSE IF t = "ShotOnPost" \/ q_has(row.qualifiers, "HitWoodWork") THEN "Post"
       ELSE IF t = "MissedShots" \/ ContainsOffTarget(out) \/ ContainsMissed(out) THEN "Missed"
       ELSE IF out # "" THEN out
       ELSE IF t # "" THEN t
       ELSE "Unknown"

\* One row of the shots table: the enrichment columns and the reindex to
\* the shots column list.
ShotRow(row) ==
    [ match_id |-> row.match_id,
      eventId |-> row.eventId,
      minute |-> row.minute,
      second |-> row.second,
      expandedMinute |-> row.expandedMinute,
      period |-> row.period,
      teamId |-> row.teamId,
      playerId |-> row.playerId,
      x |-> row.x,
      y |-> row.y,
      endX |-> row.endX,
      endY |-> row.endY,
      typeName |-> row.typeName,
      shot_outcome |-> PyStr(shot_outcome(row)),
      related_pass_eventId |-> SafeInt(q_get_any(row.qualifiers, RelatedPassAliases)),
      goal_mouth_y |-> SafeFloat(q_get(row.qualifiers, "GoalMouthY")),
      goal_mouth_z |-> SafeFloat(q_get(row.qualifiers, "GoalMouthZ")),
      q_length |-> q_get(row.qualifiers, "Length"),
      q_angle |-> q_get(row.qualifiers, "Angle"),
      qualifiers |-> row.qualifiers ]

\* build_df_shots(df_events); an empty events table gives an empty table.
build_df_shots(events) ==
    LET kept == SelectSeq(events, is_shot_row)
    IN [i \in 1..Len(kept) |-> ShotRow(kept[i])]

\* One entry of shot_by_related[key].
RelatedShotEntry(sh) ==
    [ shot_eventId |-> SafeInt(sh.eventId),
      shot_outcome |-> sh.shot_outcome,
      typeName |-> sh.typeName,
      minute |-> SafeInt(sh.minute),
      second |-> SafeFloat(sh.second) ]

\* Mutant: the index is keyed by the originating-pass id alone.
ShotsByRelatedPassOnly(shots, tid, eid) ==
    LET hits == SelectSeq(shots, LAMBDA sh :
                    /\ ~IsNull(sh.related_pass_eventId)
                    /\ sh.related_pass_eventId.v = eid)
    IN [i \in 1..Len(hits) |-> RelatedShotEntry(hits[i])]

\* shot_by_related.get((tid, eid), []): the entries appended, in shots
\* order, for the shots with a non-null originating pass and a non-null
\* team id whose key (int(teamId), int(related_pass_eventId)) is (tid, eid).
shot_by_related(shots, tid, eid) ==
    LET hits == SelectSeq(shots, LAMBDA sh :
                    /\ ~IsNull(sh.related_pass_eventId)
                    /\ ~IsNull(sh.teamId)
                    /\ sh.teamId.v = tid
                    /\ sh.related_pass_eventId.v = eid)
    IN [i \in 1..Len(hits) |-> RelatedShotEntry(hits[i])]

\* build_df_passes_enriched.related_for_row
related_for_row(row, shots) ==
    IF IsNull(row.teamId) \/ IsNull(row.eventId) THEN <<>>
    ELSE shot_by_related(shots, row.teamId.v, row.eventId.v)

WsAssistFlags == {"Assist", "GoalAssist", "IntentionalGoalAssist"}

\* lambda L: len(L) > 0
is_key_pass(L) == Len(L) > 0

\* Mutant: every pass with a related shot counts as an assist.
IsAssistWheneverRelated(L) == Len(L) > 0

\* lambda L: any(sh.get("shot_outcome") == "Goal" for sh in (L or []))
is_assist(L) == \E i \in 1..Len(L) : L[i].shot_outcome = PyStr("Goal")

\* lambda qs: any((q.get("type") or {}).get("displayName") in {...} for q in (qs or []))
has_ws_assist_flag(qs) ==
    \E i \in 1..Len(QList(qs)) :
        QName(QList(qs)[i]).t = "str" /\ QName(QList(qs)[i]).v \in WsAssistFlags

PassRow(row, shots) ==
    LET related == related_for_row(row, shots) IN
    [ match_id |-> row.match_id,
      eventId |-> row.eventId,
      minute |-> row.minute,
      second |-> row.second,
      expandedMinute |-> row.expandedMinute,
      period |-> row.period,
      teamId |-> row.teamId,
      playerId |-> row.playerId,
      x |-> row.x,
      y |-> row.y,
      endX |-> row.endX,
      endY |-> row.endY,
      typeName |-> row.typeName,
      outcomeName |-> row.outcomeName,
      pass_outcome |-> IF IsNull(row.outcomeName) THEN PyStr("Unknown") ELSE row.outcomeName,
      is_key_pass |-> is_key_pass(related),
      is_assist |-> is_assist(related),
      is_cross |-> q_has(row.qualifiers, "Cross"),
      is_throughball |-> q_has(row.qualifiers, "ThroughBall")
                            \/ q_has(row.qualifiers, "ChippedThroughBall"),
      q_length |-> q_get(row.qualifiers, "Length"),
      q_angle |-> q_get(row.qualifiers, "Angle"),
      related_shots |-> related,
      has_ws_assist_flag |-> has_ws_assist_flag(row.qualifiers),
      qualifiers |-> row.qualifiers ]

\* build_df_passes_enriched(df_events, df_shots)
build_df_passes_enriched(events, shots) ==
    LET passes == SelectSeq(events, LAMBDA row : row.typeName = PyStr("Pass"))
    IN [i \in 1..Len(passes) |-> PassRow(passes[i], shots)]

\* df_shots = build_df_shots(df_events)
BuildShots ==
    /\ stage = "normalized"
    /\ stage' = "shots"
    /\ df_shots' = build_df_shots(df_events)
    /\ UNCHANGED <<payload, df_match, df_players, df_events, df_passes>>
    /\ UNCHANGED <<exVars, ldVars, dvVars, envVars>>

\* astype("Int64") of a column raises when a cell holds non-numeric text
\* or a float with a fractional part.
Int64Castable(x) ==
    \/ x.t \in {"int", "none", "numstr"}
    \/ x.t = "float" /\ x.v % 1000 = 0

\* The casts of build_df_passes_enriched: related_pass_eventId and teamId
\* of the shots that name an originating pass, eventId and teamId of the
\* passes.
PassCastsSucceed(events, shots) ==
    /\ \A i \in 1..Len(shots) :
            ~IsNull(shots[i].related_pass_eventId) => Int64Castable(shots[i].teamId)
    /\ \A i \in 1..Len(events) :
            events[i].typeName = PyStr("Pass") =>
                Int64Castable(events[i].eventId) /\ Int64Castable(events[i].teamId)

\* The exception astype("Int64") leaves build_df_passes_enriched with.
CastError == "ValueError in build_df_passes_enriched"

\* df_passes = build_df_passes_enriched(df_events, df_shots)
BuildPasses ==
    /\ stage = "shots"
    /\ IF df_events = <<>> \/ PassCastsSucceed(df_events, df_shots)
          THEN /\ stage' = "passes"
               /\ df_passes' = build_df_passes_enriched(df_events, df_shots)
               /\ failure' = failure
          ELSE /\ stage' = "aborted"
               /\ df_passes' = df_passes
               /\ failure' = CastError
    /\ UNCHANGED <<payload, df_match, df_players, df_events, df_shots>>
    /\ UNCHANGED <<df_def, df_gk, df_form, df_pos, df_score, df_form_scored>>
    /\ UNCHANGED <<exVars, ldVars, envVars>>

(* ---- event lists handed to the classifier ---- *)

\* Longest event list of a classifier payload.
MaxEvents == 3

Qual(name, val) ==
    PyDict(("type" :> PyDict("displayName" :> PyStr(name))) @@ Entry("value", val))

\* A type / outcome object with the given display name; NoName leaves the
\* whole object out of the event.
NoName == "<none>"
TypeObj(name) == IF name = NoName THEN Missing ELSE PyDict("displayName" :> PyStr(name))

Ev(eid, tid, minute, typ, out, quals) ==
    PyDict(Entry("eventId", eid) @@ Entry("teamId", tid)
            @@ ("minute" :> PyInt(minute)) @@ ("expandedMinute" :> PyInt(minute))
            @@ Entry("type", TypeObj(typ)) @@ Entry("outcomeType", TypeObj(out))
            @@ Entry("qualifiers", quals))

\* Passes and shots of both teams (ids 10 and 20), shots that name pass 1
\* as their origin, and events that are shots by qualifier only.
ClassEvents ==
    { Ev(PyInt(1), PyInt(10), 9, "Pass", "Successful", PyList(<<Qual("Cross", Missing)>>)),
      Ev(PyInt(1), PyInt(20), 9, "Pass", NoName, PyList(<<Qual("Assist", Missing)>>)),
      Ev(PyInt(1), Missing, 9, "Pass", "Unsuccessful", Missing),
      Ev(Missing, PyInt(10), 9, "Pass", "Successful", PyList(<<>>)),
      Ev(PyInt(5), PyInt(10), 10, "Goal", "Successful",
            PyList(<<Qual("Assist", PyNumStr(1))>>)),
      Ev(PyInt(6), PyInt(20), 12, "SavedShot", "Successful",
            PyList(<<Qual("GoalMouthY", PyNumStr(50)), Qual("KeyPass", PyNumStr(1))>>)),
      Ev(PyInt(7), PyInt(10), 15, "Shot", "Successful",
            PyList(<<Qual("KeyPass", PyStr("n/a"))>>)),
      Ev(PyInt(8), PyInt(20), 12, "Save", "Successful",
            PyList(<<Qual("GoalMouthY", Missing)>>)),
      Ev(PyInt(9), PyInt(10), 13, "Tackle", "Successful", Missing),
      Ev(PyInt(10), PyInt(20), 14, NoName, NoName,
            PyList(<<Qual("ShotType", Missing), Qual("GoalMouthZ", PyFloat(12500))>>)),
      Ev(PyInt(11), Missing, 16, "MissedShots", "Off Target",
            PyList(<<Qual("KeyPass", PyNumStr(1))>>)),
      Ev(PyInt(12), PyInt(10), 17, "ShotOnPost", "Successful",
            PyList(<<Qual("Assist", Missing), Qual("KeyPass", PyNumStr(1))>>)) }

InitEvents ==
    /\ IdleExtract
    /\ IdleLoad
    /\ \E evs \in SeqsUpTo(ClassEvents, MaxEvents) :
            InitTables(NormPayload(PyInt(7), Missing, <<>>, <<>>, PyList(evs)))

NextEvents == Normalize \/ BuildShots \/ BuildPasses

SpecEvents == InitEvents /\ [][NextEvents]_vars

(* ---- reference notions used to state the classifier's contract ---- *)

\* The qualifier entries of a row, and the tag of one entry ("" if none).
Quals(row) == IF row.qualifiers.t = "list" THEN row.qualifiers.v ELSE <<>>
QTag(q) ==
    IF "type" \in DOMAIN q.v /\ q.v["type"].t = "dict"
            /\ "displayName" \in DOMAIN q.v["type"].v
        THEN q.v["type"].v["displayName"].v ELSE ""

\* The row carries a qualifier tagged name.
Carries(row, name) == \E i \in 1..Len(Quals(row)) : QTag(Quals(row)[i]) = name

\* The first qualifier tagged name carries a non-null value.
FirstCarriesValue(row, name) ==
    \E i \in 1..Len(Quals(row)) :
        /\ QTag(Quals(row)[i]) = name
        /\ \A j \in 1..(i - 1) : QTag(Quals(row)[j]) # name
        /\ "value" \in DOMAIN Quals(row)[i].v
        /\ Quals(row)[i].v["value"].t # "none"

TypeTagInShotSet(row) == row.typeName.t = "str" /\ row.typeName.v \in SHOT_TYPES

\* The columns that identify the source event of a derived row.
SourceOf(row) ==
    [ eventId |-> row.eventId, teamId |-> row.teamId, typeName |-> row.typeName,
      expandedMinute |-> row.expandedMinute, qualifiers |-> row.qualifiers ]
Sources(rows) == [i \in 1..Len(rows) |-> SourceOf(rows[i])]

ShotStages == {"shots", "passes"}

\* C8 as stated: the shots table holds exactly the events whose type tag is
\* in the shot-type set, or that carry a GoalMouthY or GoalMouthZ
\* qualifier, or that carry a ShotType qualifier, each once.
C8_ShotsAreTypeOrQualifierCarriers ==
    stage \in ShotStages =>
        Sources(df_shots) = Sources(SelectSeq(df_events, LAMBDA row :
            \/ TypeTagInShotSet(row)
            \/ Carries(row, "GoalMouthY") \/ Carries(row, "GoalMouthZ")
            \/ Carries(row, "ShotType")))

\* C8 (amended): the shots table holds exactly the events whose type tag is
\* in the shot-type set, or whose first GoalMouthY or first GoalMouthZ
\* qualifier carries a non-null value, or that carry a ShotType qualifier;
\* each such event appears once, in event order, and no other event does.
C8_ShotsAreTypeOrValuedGoalMouth ==
    stage \in ShotStages =>
        Sources(df_shots) = Sources(SelectSeq(df_events, LAMBDA row :
            \/ TypeTagInShotSet(row)
            \/ FirstCarriesValue(row, "GoalMouthY") \/ FirstCarriesValue(row, "GoalMouthZ")
            \/ Carries(row, "ShotType")))

\* C8 witness: an event outside the shot-type set is in the shots table
\* through its qualifiers, next to an event that is left out.
C8_Witness ==
    /\ stage \in ShotStages
    /\ Len(df_shots) < Len(df_events)
    /\ \E i \in 1..Len(df_shots) :
            ~TypeTagInShotSet(df_shots[i]) /\ Carries(df_shots[i], "ShotType")

ClosedOutcomes == {"Goal", "Blocked", "Saved", "Post", "Missed", "Unknown"}
RuleOutcomes == {"Goal", "Blocked", "Saved", "Post", "Missed"}

\* C9 as stated: every shot_outcome is one of the six names.
C9_ShotOutcomeInClosedSet ==
    stage \in ShotStages =>
        \A i \in 1..Len(df_shots) : df_shots[i].shot_outcome.v \in ClosedOutcomes

\* C9 (amended): every shot_outcome is Goal, Blocked, Saved, Post or Missed,
\* or else the event's raw outcome text, or (with no outcome text) the text
\* form of its type tag ("None" for a missing type); it is Unknown only
\* when both texts are empty.
C9_ShotOutcomeRuleOrRawText ==
    stage \in ShotStages =>
        LET src == SelectSeq(df_events, is_shot_row) IN
        /\ Len(df_shots) = Len(src)
        /\ \A i \in 1..Len(df_shots) :
            LET so == df_shots[i].shot_outcome.v
                out == IF src[i].outcomeName.t = "str" THEN src[i].outcomeName.v ELSE ""
                typ == IF src[i].typeName.t = "str" THEN src[i].typeName.v ELSE "None"
            IN \/ so \in RuleOutcomes
               \/ out # "" /\ so = out
               \/ out = "" /\ typ # "" /\ so = typ
               \/ out = "" /\ typ = "" /\ so = "Unknown"

\* C9 witness: a shot that no rule matches carries its raw outcome text.
C9_Witness ==
    /\ stage \in ShotStages
    /\ \E i \in 1..Len(df_shots) :
            /\ df_shots[i].typeName = PyStr("Shot")
            /\ df_shots[i].shot_outcome = PyStr("Successful")

\* C10: related_shots of a pass is exactly the list of the shots whose team
\* id equals the pass's team id and whose originating-pass id equals the
\* pass's event id; a shot of the other team with the same originating-pass
\* id is never linked; a pass with a null team id or event id gets [].
C10_RelatedShotsByTeamAndPassId ==
    stage = "passes" =>
        LET src == SelectSeq(df_events, LAMBDA row : row.typeName = PyStr("Pass")) IN
        /\ Sources(df_passes) = Sources(src)
        /\ \A k \in 1..Len(df_passes) :
            LET pr == df_passes[k]
                want == SelectSeq(df_shots, LAMBDA sh :
                            /\ pr.teamId.t = "int" /\ pr.eventId.t = "int"
                            /\ sh.teamId = pr.teamId
                            /\ sh.related_pass_eventId = pr.eventId)
            IN /\ Len(pr.related_shots) = Len(want)
               /\ \A i \in 1..Len(want) :
                    /\ pr.related_shots[i].shot_eventId = want[i].eventId
                    /\ pr.related_shots[i].shot_outcome = want[i].shot_outcome
                    /\ pr.related_shots[i].typeName = want[i].typeName
               /\ (IsNull(pr.teamId) \/ IsNull(pr.eventId)) => pr.related_shots = <<>>

\* C10 witness: a pass is linked to its own team's shot while a shot of the
\* other team names the same originating-pass id.
C10_Witness ==
    /\ stage = "passes"
    /\ \E k \in 1..Len(df_passes) :
        /\ Len(df_passes[k].related_shots) = 1
        /\ \E j \in 1..Len(df_shots) :
            /\ df_shots[j].related_pass_eventId = df_passes[k].eventId
            /\ df_shots[j].teamId.t = "int"
            /\ df_shots[j].teamId # df_passes[k].teamId

\* C11: in the passes table is_key_pass is true exactly when related_shots
\* is non-empty, is_assist is true exactly when some entry of related_shots
\* has outcome Goal (so is_assist implies is_key_pass), and
\* has_ws_assist_flag is true exactly when the pass's own qualifiers carry
\* an Assist, GoalAssist or IntentionalGoalAssist tag, whatever is_assist is.
C11_PassFlagsFollowRelatedShots ==
    stage = "passes" =>
        \A k \in 1..Len(df_passes) :
            LET pr == df_passes[k] IN
            /\ pr.is_key_pass <=> pr.related_shots # <<>>
            /\ pr.is_assist <=>
                    \E i \in 1..Len(pr.related_shots) :
                        pr.related_shots[i].shot_outcome.v = "Goal"
            /\ pr.is_assist => pr.is_key_pass
            /\ pr.has_ws_assist_flag <=>
                    \E name \in WsAssistFlags : Carries(pr, name)

\* C11 witness: a key pass whose related shot is no goal, so it is no
\* assist, while its own qualifiers carry the source's assist flag.
C11_Witness ==
    /\ stage = "passes"
    /\ \E k \in 1..Len(df_passes) :
            /\ df_passes[k].is_key_pass /\ ~df_passes[k].is_assist
            /\ df_passes[k].has_ws_assist_flag

(***************************************************************************)
(* Defensive and goalkeeper tables                                         *)
(***************************************************************************)
DEF_TYPES ==
    {"Tackle", "Interception", "Clearance", "BlockedShot", "Aerial", "BallRecovery",
     "Challenge"}
GK_TYPES == {"Save", "Claim", "KeeperPickup", "Punch", "Smother", "KeeperSweeper"}

\* The columns kept by build_df_defensive_actions.
DefRow(row) ==
    [ match_id |-> row.match_id, eventId |-> row.eventId, minute |-> row.minute,
      second |-> row.second, expandedMinute |-> row.expandedMinute,
      period |-> row.period, teamId |-> row.teamId, playerId |-> row.playerId,
      x |-> row.x, y |-> row.y, typeName |-> row.typeName,
      outcomeName |-> row.outcomeName, qualifiers |-> row.qualifiers ]

build_df_defensive_actions(events) ==
    LET kept == SelectSeq(events, LAMBDA row :
                    row.typeName.t = "str" /\ row.typeName.v \in DEF_TYPES)
    IN [i \in 1..Len(kept) |-> DefRow(kept[i])]

GkRow(row) ==
    [ match_id |-> row.match_id, eventId |-> row.eventId, minute |-> row.minute,
      second |-> row.second, expandedMinute |-> row.expandedMinute,
      period |-> row.period, teamId |-> row.teamId, playerId |-> row.playerId,
      x |-> row.x, y |-> row.y, typeName |-> row.typeName,
      outcomeName |-> row.outcomeName,
      gk_goal_mouth_y |-> SafeFloat(q_get(row.qualifiers, "GoalMouthY")),
      gk_goal_mouth_z |-> SafeFloat(q_get(row.qualifiers, "GoalMouthZ")),
      qualifiers |-> row.qualifiers ]

\* Mutant: the saves the shots table already holds are taken as well.
GkActionsWithSavedShots(events) ==
    LET kept == SelectSeq(events, LAMBDA row :
                    StrOf(row.typeName) \in GK_TYPES \cup {"SavedShot"})
    IN [i \in 1..Len(kept) |-> GkRow(kept[i])]

build_df_gk_actions(events) ==
    LET kept == SelectSeq(events, LAMBDA row : StrOf(row.typeName) \in GK_TYPES)
    IN [i \in 1..Len(kept) |-> GkRow(kept[i])]

\* df_def = build_df_defensive_actions(df_events)
BuildDefensive ==
    /\ stage = "passes"
    /\ stage' = "defensive"
    /\ df_def' = build_df_defensive_actions(df_events)
    /\ UNCHANGED <<payload, df_match, df_players, df_events, df_shots, df_passes>>
    /\ UNCHANGED <<df_gk, df_form, df_pos, df_score, df_form_scored, failure>>
    /\ UNCHANGED <<exVars, ldVars, envVars>>

\* df_gk = build_df_gk_actions(df_events)
BuildGk ==
    /\ stage = "defensive"
    /\ stage' = "gk"
    /\ df_gk' = build_df_gk_actions(df_events)
    /\ UNCHANGED <<payload, df_match, df_players, df_events, df_shots, df_passes>>
    /\ UNCHANGED <<df_def, df_form, df_pos, df_score, df_form_scored, failure>>
    /\ UNCHANGED <<exVars, ldVars, envVars>>

(***************************************************************************)
(* 4.4  Formation and position timelines                                   *)
(***************************************************************************)
\* A JSON object whose item order matters to the code that walks it, held
\* as the sequence of its <<key, value>> items.
PyItems(q) == [t |-> "dict", v |-> q]

\* int(x): the integer, or Raises when int() raises (None, non-numeric
\* text, a list, a dict).
Raises == [t |-> "raises", v |-> 0]
IntOf(x) ==
    CASE x.t = "int" -> x
      [] x.t = "numstr" -> PyInt(x.v)
      [] x.t = "float" -> PyInt(x.v \div 1000)
      [] x.t = "bool" -> PyInt(IF x.v THEN 1 ELSE 0)
      [] OTHER -> Raises

\* Mutant: every pairing adds an item, a slot already mapped included.
MapSetAppending(mapping, s, pid) == Append(mapping, <<s, pid>>)

\* mapping[s] = pid on a dict kept as its item sequence in insertion order:
\* an existing key keeps its place and takes the new value.
MapSet(mapping, s, pid) ==
    IF \E i \in 1..Len(mapping) : mapping[i][1] = s
        THEN [i \in 1..Len(mapping) |->
                IF mapping[i][1] = s THEN <<s, pid>> ELSE mapping[i]]
        ELSE Append(mapping, <<s, pid>>)

\* One pass of a pairing loop of _slot_player_map over the (slot, player)
\* candidates in pairs: int(s) failing skips the pair, a slot that is not
\* positive or a null player skips it, int(pid) failing raises.
\* acc is [err, map].
RECURSIVE PairLoop(_, _)
PairLoop(pairs, acc) ==
    IF pairs = <<>> \/ acc.err THEN acc
    ELSE LET s == IntOf(Head(pairs)[1])
             pid == Head(pairs)[2]
         IN IF s = Raises THEN PairLoop(Tail(pairs), acc)
            ELSE IF s.v > 0 /\ ~IsNull(pid)
                    THEN IF IntOf(pid) = Raises
                            THEN [err |-> TRUE, map |-> acc.map]
                            ELSE PairLoop(Tail(pairs),
                                    [err |-> FALSE,
                                     map |-> MapSet(acc.map, s.v, IntOf(pid).v)])
                    ELSE PairLoop(Tail(pairs), acc)

\* zip(slots, pids)
Zip(a, b) == [i \in 1..Len(a) |-> <<a[i], b[i]>>]

\* for k, v in d.items() of a slot -> player map; no pairs when the key is
\* absent or not an object.
SlotToPlayerPairs(f, key) ==
    IF Get(f, key).t = "dict" THEN Get(f, key).v ELSE <<>>

\* for pid, s in d.items() of a player -> slot map, as (slot, player) pairs.
PlayerToSlotPairs(f, key) ==
    IF Get(f, key).t = "dict"
        THEN [i \in 1..Len(Get(f, key).v) |-> <<Get(f, key).v[i][2], Get(f, key).v[i][1]>>]
        ELSE <<>>

\* The dict entries of f["slots"], as (slot, playerId) pairs.
SlotEntryPairs(f) ==
    LET its == SelectSeq(Get(f, "slots").v, LAMBDA it : it.t = "dict")
    IN [i \in 1..Len(its) |-> <<Get(its[i], "slot"), Get(its[i], "playerId")>>]

\* _slot_player_map(f): [err, map], map the (slot, player) items of the
\* returned dict in insertion order; err when an int(pid) raised.
slot_player_map(f) ==
    LET slots == PyOr(PyOr(Get(f, "formationSlots"), Get(f, "slots")), PyList(<<>>))
        pids == PyOr(Get(f, "playerIds"), PyList(<<>>))
        a0 == [err |-> FALSE, map |-> <<>>]
        a1 == IF slots.t = "list" /\ pids.t = "list"
                    /\ Len(slots.v) = Len(pids.v) /\ Len(slots.v) > 0
                THEN PairLoop(Zip(slots.v, pids.v), a0) ELSE a0
        a2 == PairLoop(SlotToPlayerPairs(f, "formationSlotToPlayerIdMap"), a1)
        a3 == PairLoop(SlotToPlayerPairs(f, "slotToPlayerIdMap"), a2)
        a4 == PairLoop(PlayerToSlotPairs(f, "playerIdToFormationSlotMap"), a3)
        a5 == PairLoop(PlayerToSlotPairs(f, "playerToSlotMap"), a4)
    IN IF ~a5.err /\ Get(f, "slots").t = "list" /\ a5.map = <<>>
          THEN PairLoop(SlotEntryPairs(f), a5)
          ELSE a5

\* dict.get(k, default): the default only when the key is absent.
GetDefault(d, k, default) == IF k \in DOMAIN d.v THEN d.v[k] ELSE default

\* _positions_list(f)
positions_list(f) ==
    LET pos == PyOr(PyOr(PyOr(Get(f, "formationPositions"), Get(f, "positions")),
                         Get(f, "formationCoordinates")), PyList(<<>>)).v
    IN [i \in 1..Len(pos) |->
          IF pos[i].t # "dict" THEN [horizontal |-> PyNone, vertical |-> PyNone]
          ELSE [ horizontal |-> GetDefault(pos[i], "horizontal",
                                    GetDefault(pos[i], "x", Get(pos[i], "centerX"))),
                 vertical |-> GetDefault(pos[i], "vertical",
                                    GetDefault(pos[i], "y", Get(pos[i], "centerY"))) ]]

\* A stable sort: rows keep their order unless Before puts one ahead.
StableSort(seq, Before(_, _)) ==
    LET n == Len(seq)
        rank(i) == Cardinality({j \in 1..n :
                        \/ Before(seq[j], seq[i])
                        \/ ~Before(seq[i], seq[j]) /\ j < i}) + 1
    IN [k \in 1..n |-> seq[CHOOSE i \in 1..n : rank(i) = k]]

\* max_exp: one past the largest int(ev.get("expandedMinute") or 0) over the
\* events, values int() rejects being passed over.
MaxExp(p) ==
    LET evs == PyOr(Get(McdOf(p), "events"), PyList(<<>>)).v
        ms == {IntOf(PyOr(Get(evs[i], "expandedMinute"), PyInt(0))) : i \in 1..Len(evs)}
    IN SetMax({0} \cup {m.v : m \in {m \in ms : m # Raises}}) + 1

\* jersey_by_pid.get(pid): shirtNo of the last players row with that id.
JerseyOf(players, pid) ==
    LET hits == {i \in 1..Len(players) : SafeInt(players[i].player_id) = PyInt(pid)}
    IN IF hits = {} THEN PyNone ELSE players[SetMax(hits)].shirtNo

RecognisedPeriods == {1, 2, 16}

\* sorted(team.get("formations") or [], key=(period, startMinuteExpanded)),
\* absent keys counting as 0 and -1.
SortedFormations(team) ==
    LET key(f) == << GetDefault(f, "period", PyInt(0)).v,
                     GetDefault(f, "startMinuteExpanded", PyInt(-1)).v >>
    IN StableSort(PyOr(Get(team, "formations"), PyList(<<>>)).v,
                  LAMBDA f, g : \/ key(f)[1] < key(g)[1]
                                \/ key(f)[1] = key(g)[1] /\ key(f)[2] < key(g)[2])

FormStart(f) == PyOr(SafeInt(Get(f, "startMinuteExpanded")), PyInt(0))
FormEnd(f, max_exp) == PyOr(SafeInt(Get(f, "endMinuteExpanded")), PyInt(max_exp))

\* rows_form.append({...})
FormRow(f, side, team, match_id, max_exp) ==
    [ match_id |-> match_id,
      team_side |-> side,
      team_id |-> Get(team, "teamId"),
      team_name |-> Get(team, "name"),
      formation_name |-> StripOrNone(Get(f, "formationName")),
      period |-> Get(f, "period"),
      start_expanded |-> FormStart(f),
      end_expanded |-> FormEnd(f, max_exp),
      duration_expanded |-> PyInt(FormEnd(f, max_exp).v - FormStart(f).v) ]

\* rows_pos.append({...}) for one (slot, player) item of slot2pid.
PosRow(item, f, side, team, match_id, max_exp, players) ==
    LET pos_list == positions_list(f)
        inside == 1 <= item[1] /\ item[1] <= Len(pos_list)
    IN [ match_id |-> match_id,
         team_side |-> side,
         team_id |-> Get(team, "teamId"),
         period |-> Get(f, "period"),
         start_minute |-> FormStart(f),
         end_minute |-> FormEnd(f, max_exp),
         formation_name |-> StripOrNone(Get(f, "formationName")),
         slot |-> item[1],
         player_id |-> item[2],
         jersey_number |-> JerseyOf(players, item[2]),
         x |-> SafeFloat(IF inside THEN pos_list[item[1]].horizontal ELSE PyNone),
         y |-> SafeFloat(IF inside THEN pos_list[item[1]].vertical ELSE PyNone) ]

\* The formations of one side that the loop does not skip.
KeptFormations(p, side) ==
    SelectSeq(SortedFormations(PyOr(Get(McdOf(p), side), EmptyDict)),
              LAMBDA f : Get(f, "period").t = "int" /\ Get(f, "period").v \in RecognisedPeriods)

RECURSIVE FlattenSeqs(_)
FlattenSeqs(ss) == IF ss = <<>> THEN <<>> ELSE Head(ss) \o FlattenSeqs(Tail(ss))

\* The rows one side's loop appends for its kept formations, and whether an
\* int(pid) raised on the way.
SideRowsOf(forms, side, team, match_id, max_exp, players) ==
    [ err |-> \E i \in 1..Len(forms) : slot_player_map(forms[i]).err,
      form |-> [i \in 1..Len(forms) |-> FormRow(forms[i], side, team, match_id, max_exp)],
      pos |-> FlattenSeqs([i \in 1..Len(forms) |->
                [k \in 1..Len(slot_player_map(forms[i]).map) |->
                    PosRow(slot_player_map(forms[i]).map[k], forms[i], side, team,
                           match_id, max_exp, players)]]) ]

SideRows(p, side, players) ==
    SideRowsOf(KeptFormations(p, side), side, PyOr(Get(McdOf(p), side), EmptyDict),
               MatchIdOf(p), MaxExp(p), players)

\* "away" sorts before "home".
SideRank(side) == IF side = "away" THEN 0 ELSE 1

\* The exceptions that leave build_formations_timelines.
PlayerIdError == "ValueError in _slot_player_map"
SortKeyError == "KeyError in build_formations_timelines"

\* pd.DataFrame(rows_form).sort_values(["team_side","start_expanded"]) and
\* pd.DataFrame(rows_pos).sort_values(["team_side","start_minute","slot"]):
\* a frame built from no rows has no columns to sort by (KeyError); an
\* int(pid) that raised in the loop has left before with ValueError.
SortedTimelines(err, rows_form, rows_pos) ==
    IF err THEN [err |-> PlayerIdError, form |-> <<>>, pos |-> <<>>]
    ELSE IF rows_form = <<>> \/ rows_pos = <<>>
         THEN [err |-> SortKeyError, form |-> <<>>, pos |-> <<>>]
    ELSE [ err |-> "none",
           form |-> StableSort(rows_form, LAMBDA r, q :
                     \/ SideRank(r.team_side) < SideRank(q.team_side)
                     \/ /\ r.team_side = q.team_side
                        /\ r.start_expanded.v < q.start_expanded.v),
           pos |-> StableSort(rows_pos, LAMBDA r, q :
                     \/ SideRank(r.team_side) < SideRank(q.team_side)
                     \/ /\ r.team_side = q.team_side
                        /\ r.start_minute.v < q.start_minute.v
                     \/ /\ r.team_side = q.team_side
                        /\ r.start_minute.v = q.start_minute.v
                        /\ r.slot < q.slot) ]

JoinSides(H, A) == SortedTimelines(H.err \/ A.err, H.form \o A.form, H.pos \o A.pos)

\* build_formations_timelines(payload, df_players): [err, form, pos].
build_formations_timelines(p, players) ==
    JoinSides(SideRows(p, "home", players), SideRows(p, "away", players))

\* df_form, df_pos = build_formations_timelines(payload, df_players)
BuildFormations ==
    /\ stage = "gk"
    /\ LET R == build_formations_timelines(payload, df_players) IN
        /\ stage' = IF R.err = "none" THEN "formations" ELSE "aborted"
        /\ failure' = R.err
        /\ df_form' = R.form
        /\ df_pos' = R.pos
    /\ UNCHANGED <<payload, df_match, df_players, df_events, df_shots, df_passes>>
    /\ UNCHANGED <<df_def, df_gk, df_score, df_form_scored>>
    /\ UNCHANGED <<exVars, ldVars, envVars>>

(***************************************************************************)
(* 4.5  Score timeline and its merge onto the formation segments            *)
(***************************************************************************)
\* Mutant: no goal is ever taken for an own goal.
IsOwnGoalNever(qs) == FALSE

\* is_own_goal(qs)
is_own_goal(qs) == q_has(qs, "OwnGoal")

\* goals.sort_values("expandedMinute"): ascending, nulls last, ties in
\* table order.
SortedGoals(shots) ==
    StableSort(SelectSeq(shots, LAMBDA sh : sh.shot_outcome = PyStr("Goal")),
               LAMBDA r, q : /\ ~IsNull(r.expandedMinute)
                             /\ IsNull(q.expandedMinute)
                                    \/ r.expandedMinute.v < q.expandedMinute.v)

\* Mutant: an own goal is credited to the team of the player who scored it.
ScoreAfterIgnoringOwnGoal(g, h, a, home_team_id, away_team_id) ==
    LET tid == SafeInt(g.teamId) IN
    IF tid = PyInt(home_team_id) THEN <<h + 1, a>>
    ELSE IF tid = PyInt(away_team_id) THEN <<h, a + 1>>
    ELSE <<h, a>>

\* The counters (h, a) after the goal g.
ScoreAfter(g, h, a, home_team_id, away_team_id) ==
    LET tid == SafeInt(g.teamId)
        own == is_own_goal(g.qualifiers)
    IN IF tid = PyInt(home_team_id)
            THEN IF own THEN <<h, a + 1>> ELSE <<h + 1, a>>
       ELSE IF tid = PyInt(away_team_id)
            THEN IF own THEN <<h + 1, a>> ELSE <<h, a + 1>>
       ELSE <<h, a>>

\* The loop of build_score_timeline over the sorted goals.
RECURSIVE WalkGoals(_, _, _, _, _)
WalkGoals(goals, h, a, home_team_id, away_team_id) ==
    IF goals = <<>> THEN <<>>
    ELSE LET g == Head(goals)
             ha == ScoreAfter(g, h, a, home_team_id, away_team_id)
         IN << [ expandedMinute |-> SafeInt(g.expandedMinute),
                 scorer_teamId |-> SafeInt(g.teamId),
                 own_goal |-> is_own_goal(g.qualifiers),
                 score_home |-> ha[1],
                 score_away |-> ha[2] ] >>
            \o WalkGoals(Tail(goals), ha[1], ha[2], home_team_id, away_team_id)

\* build_score_timeline(df_shots, home_team_id, away_team_id)
build_score_timeline(shots, home_team_id, away_team_id) ==
    WalkGoals(SortedGoals(shots), 0, 0, home_team_id, away_team_id)

\* Mutant: the home id is read from the away column.
HomeIdFromAwayColumn(match) ==
    IF match = <<>> THEN PyNone ELSE SafeInt(match[1].away_team_id)

\* home_id / away_id of save_all_tables.
HomeId(match) == IF match = <<>> THEN PyNone ELSE SafeInt(match[1].home_team_id)
AwayId(match) == IF match = <<>> THEN PyNone ELSE SafeInt(match[1].away_team_id)

\* df_score = build_score_timeline(...) if (home_id and away_id) else empty
BuildScore ==
    /\ stage = "formations"
    /\ stage' = "score"
    /\ df_score' = IF Truthy(HomeId(df_match)) /\ Truthy(AwayId(df_match))
                      THEN build_score_timeline(df_shots, HomeId(df_match).v,
                                                AwayId(df_match).v)
                      ELSE <<>>
    /\ UNCHANGED <<payload, df_match, df_players, df_events, df_shots, df_passes>>
    /\ UNCHANGED <<df_def, df_gk, df_form, df_pos, df_form_scored, failure>>
    /\ UNCHANGED <<exVars, ldVars, envVars>>

\* leader(r)
leader(score_home, score_away) ==
    IF score_home > score_away THEN "home"
    ELSE IF score_home < score_away THEN "away"
    ELSE "draw"

Scored(row, score_home, score_away) ==
    row @@ [ score_home |-> score_home, score_away |-> score_away,
             leader_at_start |-> leader(score_home, score_away) ]

\* Mutant: the join takes the first point at or after the segment start.
MergeAsofForward(left_row, right) ==
    LET hits == {i \in 1..Len(right) :
                    right[i].expandedMinute.v >= left_row.start_expanded.v}
    IN IF hits = {} THEN Scored(left_row, 0, 0)
       ELSE LET i == CHOOSE i \in hits : \A j \in hits : i <= j
            IN Scored(left_row, right[i].score_home, right[i].score_away)

\* pd.merge_asof(..., direction="backward") for one left row: the last row
\* of the sorted right table whose key is at most the left key; without one
\* the score cells are null and fillna(0) makes them 0.
MergeAsofBackward(left_row, right) ==
    LET hits == {i \in 1..Len(right) :
                    right[i].expandedMinute.v <= left_row.start_expanded.v}
    IN IF hits = {} THEN Scored(left_row, 0, 0)
       ELSE Scored(left_row, right[SetMax(hits)].score_home,
                   right[SetMax(hits)].score_away)

MergeKeyError == "ValueError in attach_score_to_formations"

\* attach_score_to_formations(df_form, df_score, ...): [err, rows].
\* merge_asof raises on a null key in the right table.
attach_score_to_formations(form, score) ==
    IF form = <<>> THEN [err |-> "none", rows |-> <<>>]
    ELSE IF score = <<>>
        THEN [err |-> "none", rows |-> [i \in 1..Len(form) |-> Scored(form[i], 0, 0)]]
    ELSE IF \E i \in 1..Len(score) : IsNull(score[i].expandedMinute)
        THEN [err |-> MergeKeyError, rows |-> <<>>]
    ELSE LET left == StableSort(form, LAMBDA r, q :
                        r.start_expanded.v < q.start_expanded.v)
             right == StableSort(score, LAMBDA r, q :
                        r.expandedMinute.v < q.expandedMinute.v)
         IN [err |-> "none",
             rows |-> [i \in 1..Len(left) |-> MergeAsofBackward(left[i], right)]]

\* df_form_scored = attach_score_to_formations(df_form, df_score, ...)
AttachScore ==
    /\ stage = "score"
    /\ LET R == attach_score_to_formations(df_form, df_score) IN
        /\ stage' = IF R.err = "none" THEN "scored" ELSE "aborted"
        /\ failure' = R.err
        /\ df_form_scored' = R.rows
    /\ UNCHANGED <<payload, df_match, df_players, df_events, df_shots, df_passes>>
    /\ UNCHANGED <<df_def, df_gk, df_form, df_pos, df_score>>
    /\ UNCHANGED <<exVars, ldVars, envVars>>

\* save_all_tables from to_dataframes to the last derived table.
NextSave ==
    \/ Normalize
    \/ BuildShots
    \/ BuildPasses
    \/ BuildDefensive
    \/ BuildGk
    \/ BuildFormations
    \/ BuildScore
    \/ AttachScore

(* ---- payloads of the score timeline runs ---- *)

\* Longest event list of a score-timeline payload.
MaxGoals == 3

HomeTeamId == 10
AwayTeamId == 20

\* A formation record with the parallel slot / player arrays.
Formation(period, start, slots, pids) ==
    PyDict(("period" :> PyInt(period)) @@ ("startMinuteExpanded" :> PyInt(start))
            @@ ("formationName" :> PyStr("442"))
            @@ ("formationSlots" :> PyList(slots)) @@ ("playerIds" :> PyList(pids)))

TeamWith(tid, name, players, formations) ==
    PyDict(("teamId" :> PyInt(tid)) @@ ("name" :> PyStr(name))
            @@ ("players" :> PyList(players)) @@ Entry("formations", formations))

SavePayload(events, homeForms, awayForms) ==
    PyDict(("matchId" :> PyInt(7))
        @@ ("matchCentreData" :> PyDict(
                ("home" :> TeamWith(HomeTeamId, "Home FC", <<PlayerWith(Missing)>>, homeForms))
                @@ ("away" :> TeamWith(AwayTeamId, "Away FC", <<AwayPlayer>>, awayForms))
                @@ ("events" :> PyList(events)))))

\* Goals of the home team, of the away team and of neither, own goals marked
\* by qualifier and by type tag, a goal marked by qualifier only, a saved
\* shot, and the pass the first goal names as its origin.
ScoreEvents ==
    { Ev(PyInt(5), PyInt(HomeTeamId), 10, "Goal", "Successful",
            PyList(<<Qual("Assist", PyNumStr(1))>>)),
      Ev(PyInt(1), PyInt(HomeTeamId), 9, "Pass", "Successful", PyList(<<>>)),
      Ev(PyInt(12), PyInt(HomeTeamId), 20, "Goal", "Successful",
            PyList(<<Qual("OwnGoal", Missing)>>)),
      Ev(PyInt(13), PyInt(AwayTeamId), 30, "Goal", "Successful", PyList(<<>>)),
      Ev(PyInt(14), PyInt(AwayTeamId), 5, "Goal", "Successful",
            PyList(<<Qual("OwnGoal", Missing)>>)),
      Ev(PyInt(15), PyInt(30), 40, "Goal", "Successful", Missing),
      Ev(PyInt(16), PyInt(AwayTeamId), 50, "OwnGoal", "Successful", PyList(<<>>)),
      Ev(PyInt(17), PyInt(HomeTeamId), 10, "Shot", "Successful",
            PyList(<<Qual("Goal", Missing)>>)),
      Ev(PyInt(6), PyInt(AwayTeamId), 12, "SavedShot", "Successful",
            PyList(<<Qual("KeyPass", PyNumStr(1))>>)) }

\* The formation lists of the two sides: segments starting before, at and
\* after goal minutes; one side only; and none at all.
ScoreFormations ==
    { << PyList(<< Formation(1, 0, <<PyInt(1)>>, <<PyInt(1)>>),
                   Formation(1, 10, <<PyInt(1)>>, <<PyInt(1)>>) >>),
         PyList(<< Formation(2, 25, <<PyInt(1)>>, <<PyInt(2)>>) >>) >>,
      << PyList(<< Formation(2, 45, <<PyInt(1)>>, <<PyInt(1)>>) >>), Missing >>,
      << Missing, Missing >> }

InitScore ==
    /\ IdleExtract
    /\ IdleLoad
    /\ \E evs \in SeqsUpTo(ScoreEvents, MaxGoals), fs \in ScoreFormations :
            InitTables(SavePayload(evs, fs[1], fs[2]))

SpecScore == InitScore /\ [][NextSave]_vars

(* ---- reference notions used to state the score timeline's contract ---- *)

PassesBuilt == stage \in {"passes", "defensive", "gk", "formations", "score", "scored"}
ScoreBuilt == stage \in {"score", "scored"}

\* The number a qualifier value or an id reads as (-1 when it is none).
NumOf(x) == IF x.t \in {"int", "numstr"} THEN x.v ELSE -1

\* Row g of the events table is a Goal of the home team at expanded minute
\* 10 without an own-goal qualifier, row p a Pass of the same team at minute
\* 9 whose event id is the value of an originating-pass qualifier of g, and
\* every other event of the list is a pass.
GoalAndItsPass(g, p) ==
    /\ df_events[g].typeName = PyStr("Goal")
    /\ df_events[g].teamId = PyInt(HomeTeamId)
    /\ df_events[g].expandedMinute = PyInt(10)
    /\ ~Carries(df_events[g], "OwnGoal")
    /\ df_events[p].typeName = PyStr("Pass")
    /\ df_events[p].teamId = PyInt(HomeTeamId)
    /\ df_events[p].minute = PyInt(9)
    /\ df_events[p].eventId.t = "int"
    /\ \E i \in 1..Len(Quals(df_events[g])) :
            /\ QTag(Quals(df_events[g])[i]) \in RelatedPassAliases
            /\ "value" \in DOMAIN Quals(df_events[g])[i].v
            /\ NumOf(Quals(df_events[g])[i].v["value"]) = df_events[p].eventId.v
    /\ \A j \in 1..Len(df_events) : j # g => df_events[j].typeName = PyStr("Pass")

\* C12: for an event list with one Goal of the home team at expanded minute
\* 10, without own-goal qualifier and naming an originating pass, and one
\* Pass of the same team at minute 9 with that event id, the passes table
\* shows that pass with is_key_pass and is_assist true, and the score
\* timeline has exactly one point: minute 10, home 1, away 0.
C12_GoalAndAssistScenario ==
    \A g, p \in 1..Len(df_events) :
        GoalAndItsPass(g, p) =>
            /\ PassesBuilt =>
                \E k \in 1..Len(df_passes) :
                    /\ SourceOf(df_passes[k]) = SourceOf(df_events[p])
                    /\ df_passes[k].is_key_pass
                    /\ df_passes[k].is_assist
            /\ ScoreBuilt =>
                /\ Len(df_score) = 1
                /\ df_score[1].expandedMinute = PyInt(10)
                /\ df_score[1].score_home = 1
                /\ df_score[1].score_away = 0

\* C12 witness: the run of such an event list has built every table.
C12_Witness ==
    /\ stage = "scored"
    /\ \E g, p \in 1..Len(df_events) : GoalAndItsPass(g, p)
    /\ Len(df_score) = 1

\* The counters before point k of the timeline.
HomeBefore(k) == IF k = 1 THEN 0 ELSE df_score[k - 1].score_home
AwayBefore(k) == IF k = 1 THEN 0 ELSE df_score[k - 1].score_away

\* The goals the timeline walks: the shots classified Goal, by ascending
\* expanded minute, ties in table order.
GoalsWalked == SortedGoals(df_shots)

\* C13: walking the goals in order, a goal of the home team adds one to the
\* home counter when it is not flagged own-goal and to the away counter when
\* it is; a goal of the away team adds one to away when not flagged and to
\* home when flagged; a goal of neither team still gives a point and changes
\* neither counter.
C13_OwnGoalCreditsOpponent ==
    ScoreBuilt =>
        /\ Len(df_score) = Len(GoalsWalked)
        /\ \A k \in 1..Len(df_score) :
            LET g == GoalsWalked[k]
                own == Carries(g, "OwnGoal")
                dh == df_score[k].score_home - HomeBefore(k)
                da == df_score[k].score_away - AwayBefore(k)
            IN /\ g.teamId = PyInt(HomeTeamId) /\ ~own => dh = 1 /\ da = 0
               /\ g.teamId = PyInt(HomeTeamId) /\ own => dh = 0 /\ da = 1
               /\ g.teamId = PyInt(AwayTeamId) /\ ~own => dh = 0 /\ da = 1
               /\ g.teamId = PyInt(AwayTeamId) /\ own => dh = 1 /\ da = 0
               /\ g.teamId \notin {PyInt(HomeTeamId), PyInt(AwayTeamId)} =>
                    dh = 0 /\ da = 0

\* C13 witness: a timeline with an own goal of the away team credited to
\* home and a goal of neither team that moved no counter.
C13_Witness ==
    /\ ScoreBuilt
    /\ \E k \in 1..Len(df_score) :
            /\ df_score[k].scorer_teamId = PyInt(AwayTeamId) /\ df_score[k].own_goal
            /\ df_score[k].score_home = HomeBefore(k) + 1
    /\ \E k \in 1..Len(df_score) :
            /\ df_score[k].scorer_teamId \notin {PyInt(HomeTeamId), PyInt(AwayTeamId)}
            /\ df_score[k].score_home = HomeBefore(k)
            /\ df_score[k].score_away = AwayBefore(k)

\* The number of goals of team tid that are / are not flagged own-goal.
GoalCount(tid, own) ==
    Cardinality({i \in 1..Len(df_shots) :
                    /\ df_shots[i].shot_outcome = PyStr("Goal")
                    /\ df_shots[i].teamId = PyInt(tid)
                    /\ Carries(df_shots[i], "OwnGoal") = own})

\* C14: along the timeline the home and the away score never decrease and
\* grow by at most one goal in total per point; at the last point home is
\* (home goals not flagged own-goal) + (away goals flagged own-goal) and
\* away is (away goals not flagged) + (home goals flagged).
C14_ScoresMonotoneAndFinal ==
    ScoreBuilt =>
        /\ \A k \in 1..Len(df_score) :
            /\ df_score[k].score_home >= HomeBefore(k)
            /\ df_score[k].score_away >= AwayBefore(k)
            /\ (df_score[k].score_home - HomeBefore(k))
                    + (df_score[k].score_away - AwayBefore(k)) <= 1
        /\ df_score # <<>> =>
            /\ df_score[Len(df_score)].score_home
                    = GoalCount(HomeTeamId, FALSE) + GoalCount(AwayTeamId, TRUE)
            /\ df_score[Len(df_score)].score_away
                    = GoalCount(AwayTeamId, FALSE) + GoalCount(HomeTeamId, TRUE)

\* C14 witness: a timeline of three points in which both scores moved and an
\* own goal was scored.
C14_Witness ==
    /\ ScoreBuilt
    /\ Len(df_score) = 3
    /\ df_score[3].score_home > 0 /\ df_score[3].score_away > 0
    /\ \E k \in 1..3 : df_score[k].own_goal

\* A goal of the event list: typed Goal, or typed OwnGoal, or carrying the
\* Goal qualifier.
IsGoalEvent(row) ==
    \/ row.typeName \in {PyStr("Goal"), PyStr("OwnGoal")}
    \/ Carries(row, "Goal")

\* C15: the score timeline of a run has exactly one point for every goal of
\* the event list, own goals included whether marked by an own-goal
\* qualifier or by an own-goal type tag, in non-decreasing expanded-minute
\* order.
C15_OnePointPerGoal ==
    ScoreBuilt =>
        /\ Len(df_score) = Len(SelectSeq(df_events, IsGoalEvent))
        /\ \A k \in 2..Len(df_score) :
            df_score[k - 1].expandedMinute.v <= df_score[k].expandedMinute.v

\* C16: every segment of formations_timeline_scored carries the running
\* score of the latest timeline point whose expanded minute is at most the
\* segment's start minute, 0-0 when there is none (so 0-0 and draw for all
\* when the timeline is empty), and leader_at_start is home, away or draw by
\* the comparison of the two attached scores; every formation segment is in
\* the table once.
C16_SegmentCarriesScoreAtStart ==
    stage = "scored" =>
        /\ Len(df_form_scored) = Len(df_form)
        /\ \A i \in 1..Len(df_form) :
            Cardinality({j \in 1..Len(df_form_scored) :
                /\ df_form_scored[j].team_side = df_form[i].team_side
                /\ df_form_scored[j].start_expanded = df_form[i].start_expanded}) = 1
        /\ \A j \in 1..Len(df_form_scored) :
            LET r == df_form_scored[j]
                upto == {k \in 1..Len(df_score) :
                            df_score[k].expandedMinute.v <= r.start_expanded.v}
            IN /\ upto = {} => r.score_home = 0 /\ r.score_away = 0
               /\ upto # {} =>
                    /\ r.score_home = df_score[SetMax(upto)].score_home
                    /\ r.score_away = df_score[SetMax(upto)].score_away
               /\ r.leader_at_start =
                    IF r.score_home > r.score_away THEN "home"
                    ELSE IF r.score_home < r.score_away THEN "away" ELSE "draw"
               /\ df_score = <<>> => r.leader_at_start = "draw"

\* C16 witness: one scored table holds a segment that starts before the
\* first goal (0-0, draw), and a segment that starts at the minute of a goal
\* and carries that goal.
C16_Witness ==
    /\ stage = "scored"
    /\ df_score # <<>>
    /\ \E j \in 1..Len(df_form_scored) :
            /\ df_form_scored[j].start_expanded.v < df_score[1].expandedMinute.v
            /\ df_form_scored[j].leader_at_start = "draw"
    /\ \E j \in 1..Len(df_form_scored), k \in 1..Len(df_score) :
            /\ df_form_scored[j].start_expanded = df_score[k].expandedMinute
            /\ df_form_scored[j].leader_at_start # "draw"

(* ---- payloads of the formation timeline runs ---- *)

\* Most formation records of the home side.
MaxFormations == 2

\* A formation record of period 1 starting at start with the given
\* slot / player sources.
FormationOf(start, sources) ==
    PyDict(("period" :> PyInt(1)) @@ ("startMinuteExpanded" :> PyInt(start))
            @@ ("formationName" :> PyStr("433"))
            @@ ("formationPositions" :> PyList(<<
                    PyDict(("vertical" :> PyFloat(5000)) @@ ("horizontal" :> PyFloat(1000))),
                    PyDict(("x" :> PyInt(3)) @@ ("y" :> PyInt(4))) >>))
            @@ sources)

\* The shapes of the slot <-> player relation: parallel arrays (aligned,
\* with a repeated slot, with slots int() rejects or that are not positive
\* or beyond 11, of different lengths, with a null player, with a
\* non-numeric player id), slot -> player and player -> slot maps with two
\* candidates for a slot, arrays together with a map, and the slots list of
\* dicts.
SlotSources ==
    { ("formationSlots" :> PyList(<<PyInt(1), PyInt(2)>>))
            @@ ("playerIds" :> PyList(<<PyInt(1), PyInt(2)>>)),
      ("formationSlots" :> PyList(<<PyInt(1), PyInt(1)>>))
            @@ ("playerIds" :> PyList(<<PyInt(1), PyInt(2)>>)),
      ("formationSlots" :> PyList(<<PyNumStr(2), PyInt(0), PyStr("x")>>))
            @@ ("playerIds" :> PyList(<<PyNumStr(1), PyInt(2), PyInt(3)>>)),
      ("formationSlots" :> PyList(<<PyInt(12)>>))
            @@ ("playerIds" :> PyList(<<PyInt(1)>>)),
      ("formationSlots" :> PyList(<<PyInt(1), PyInt(2)>>))
            @@ ("playerIds" :> PyList(<<PyInt(1)>>)),
      ("formationSlots" :> PyList(<<PyInt(1)>>))
            @@ ("playerIds" :> PyList(<<PyNone>>)),
      ("formationSlots" :> PyList(<<PyInt(1)>>))
            @@ ("playerIds" :> PyList(<<PyStr("abc")>>)),
      ("slotToPlayerIdMap" :> PyItems(<< <<PyNumStr(1), PyInt(1)>>,
                                         <<PyNumStr(1), PyInt(2)>>,
                                         <<PyStr("x"), PyInt(3)>> >>)),
      ("playerIdToFormationSlotMap" :> PyItems(<< <<PyNumStr(1), PyInt(3)>>,
                                                  <<PyNumStr(2), PyInt(3)>> >>)),
      ("formationSlots" :> PyList(<<PyInt(1)>>))
            @@ ("playerIds" :> PyList(<<PyInt(1)>>))
            @@ ("formationSlotToPlayerIdMap" :> PyItems(<< <<PyNumStr(1), PyInt(2)>>,
                                                           <<PyNumStr(2), PyInt(1)>> >>)),
      ("slots" :> PyList(<< PyDict(("slot" :> PyInt(1)) @@ ("playerId" :> PyInt(1))),
                            PyDict(("slot" :> PyInt(1)) @@ ("playerId" :> PyInt(2))),
                            PyStr("junk") >>)) }

\* The formation lists of the home side: consecutive segments of 30 minutes.
HomeFormationLists ==
    { [i \in 1..Len(ss) |-> FormationOf(30 * (i - 1), ss[i])] :
        ss \in SeqsUpTo(SlotSources, MaxFormations) }

\* A formation record that carries its own end minute.
FormationEnding(period, start, end, slots, pids) ==
    PyDict(Formation(period, start, slots, pids).v @@ ("endMinuteExpanded" :> PyInt(end)))

\* The away side has no formation, one with aligned arrays, one of a
\* period the builder does not recognise, a segment that ends where the
\* next one starts, or a record whose end minute precedes its start.
AwayFormationLists ==
    { <<>>,
      << Formation(1, 0, <<PyInt(1)>>, <<PyInt(2)>>) >>,
      << Formation(3, 0, <<PyInt(1)>>, <<PyInt(2)>>) >>,
      << FormationEnding(1, 0, 8, <<PyInt(1)>>, <<PyInt(2)>>),
         Formation(1, 8, <<PyInt(1)>>, <<PyInt(3)>>) >>,
      << FormationEnding(1, 30, 10, <<PyInt(1)>>, <<PyInt(2)>>) >> }

\* Event lists with the malformed numbers the derived tables meet: a
\* qualifier value that is no number, and a team id that is text.
RunEvents ==
    { <<>>,
      << Ev(PyInt(5), PyInt(HomeTeamId), 40, "Goal", "Successful",
                PyList(<<Qual("Assist", PyNumStr(1)), Qual("GoalMouthY", PyStr("n/a"))>>)),
         Ev(PyInt(1), PyInt(HomeTeamId), 9, "Pass", "Successful", PyList(<<>>)) >>,
      << Ev(PyInt(7), PyInt(HomeTeamId), 15, "Shot", "Successful",
                PyList(<<Qual("KeyPass", PyStr("n/a"))>>)),
         Ev(PyInt(9), PyInt(AwayTeamId), 13, "Tackle", "Successful", Missing),
         Ev(PyInt(8), PyInt(AwayTeamId), 15, "Save", "Successful",
                PyList(<<Qual("GoalMouthY", PyStr("n/a"))>>)),
         Ev(PyInt(6), PyInt(HomeTeamId), 15, "SavedShot", "Successful",
                PyList(<<Qual("GoalMouthY", PyNumStr(50)), Qual("KeeperSaved", Missing)>>)) >>,
      << Ev(PyInt(1), PyStr("x"), 9, "Pass", "Successful", PyList(<<>>)) >> }

\* The formation lists of the two sides of a payload: every home list with
\* an away side of no or one plain formation, and the home lists of at most
\* one formation with every away list.
FormationPairs ==
    { <<hf, af>> \in HomeFormationLists \X AwayFormationLists :
        Len(hf) <= 1 \/ af \in { <<>>, << Formation(1, 0, <<PyInt(1)>>, <<PyInt(2)>>) >> } }

InitForm ==
    /\ IdleExtract
    /\ IdleLoad
    /\ \E evs \in RunEvents, fs \in FormationPairs :
            InitTables(SavePayload(evs, PyList(fs[1]), PyList(fs[2])))

SpecForm == InitForm /\ [][NextSave]_vars

(* ---- reference notions used to state the formation timeline's contract ---- *)

FormBuilt == stage \in {"formations", "score", "scored"}

\* The formation records of a side as the payload lists them.
FormationsIn(p, side) ==
    LET team == Get(Get(p, "matchCentreData"), side)
    IN IF Get(team, "formations").t = "list" THEN Get(team, "formations").v ELSE <<>>

\* The position rows of the segment of side that starts at minute start.
SegmentSlots(side, start) ==
    {i \in 1..Len(df_pos) :
        df_pos[i].team_side = side /\ df_pos[i].start_minute = PyInt(start)}

\* C17: the position rows emitted for one formation segment have pairwise
\* distinct slot numbers, whichever shapes of the slot-to-player relation
\* the formation record carries.
C17_SlotsDistinctWithinSegment ==
    FormBuilt =>
        \A i, j \in 1..Len(df_pos) :
            /\ i # j
            /\ df_pos[i].team_side = df_pos[j].team_side
            /\ df_pos[i].period = df_pos[j].period
            /\ df_pos[i].start_minute = df_pos[j].start_minute
            => df_pos[i].slot # df_pos[j].slot

\* C17 witness: a formation whose slot array names slot 1 twice has got its
\* single row for slot 1, next to a second segment of the same side.
C17_Witness ==
    /\ FormBuilt
    /\ \E k \in 1..Len(FormationsIn(payload, "home")) :
        LET f == FormationsIn(payload, "home")[k] IN
        /\ Get(f, "formationSlots") = PyList(<<PyInt(1), PyInt(1)>>)
        /\ \E i \in SegmentSlots("home", Get(f, "startMinuteExpanded").v) :
                df_pos[i].slot = 1
    /\ \E i, j \in 1..Len(df_pos) :
        /\ df_pos[i].team_side = df_pos[j].team_side
        /\ df_pos[i].start_minute # df_pos[j].start_minute

\* C18: every position row has a slot number in 1..11, whatever slot values
\* the source formation holds.
C18_SlotNumbersInRange ==
    FormBuilt => \A i \in 1..Len(df_pos) : df_pos[i].slot \in 1..11

\* The record's slot array and player-id array have different lengths and
\* it carries no other source of the slot-to-player relation.
MismatchedOnly(f) ==
    /\ Get(f, "formationSlots").t = "list" /\ Get(f, "playerIds").t = "list"
    /\ Len(Get(f, "formationSlots").v) # Len(Get(f, "playerIds").v)
    /\ \A key \in {"slots", "formationSlotToPlayerIdMap", "slotToPlayerIdMap",
                   "playerIdToFormationSlotMap", "playerToSlotMap"} :
            IsNull(Get(f, key))

\* C19: a formation with slot and player arrays of different lengths and no
\* other mapping source yields no position row for its segment, its
\* formation segment row is still emitted, and building the timelines
\* raises no error, also when it is the only formation of the match.
C19_MismatchedArraysYieldNoRows ==
    \A k \in 1..Len(FormationsIn(payload, "home")) :
        LET f == FormationsIn(payload, "home")[k] IN
        MismatchedOnly(f) =>
            /\ failure # SortKeyError
            /\ FormBuilt =>
                /\ SegmentSlots("home", Get(f, "startMinuteExpanded").v) = {}
                /\ \E i \in 1..Len(df_form) :
                    /\ df_form[i].team_side = "home"
                    /\ df_form[i].start_expanded = Get(f, "startMinuteExpanded")

\* C20: no malformed numeric value aborts the run: a qualifier value that is
\* no number, an event id or team id of a pass or shot that is no integer,
\* and a slot or player id of a formation that is no number never leave
\* save_all_tables with an exception.
C20_MalformedNumbersNeverAbort ==
    failure \notin {CastError, PlayerIdError, MergeKeyError}

GkBuilt == stage \in {"gk", "formations", "score", "scored"}

\* C23: the goalkeeper-actions table holds exactly the events whose type tag
\* is in the goalkeeper-type set, each once and in event order; an event
\* typed SavedShot, which is in the shots table, is never in it whatever
\* qualifiers it carries.
C23_GkTableIsGkTypedEvents ==
    GkBuilt =>
        /\ Sources(df_gk) = Sources(SelectSeq(df_events, LAMBDA row :
                row.typeName.t = "str" /\ row.typeName.v \in GK_TYPES))
        /\ \A i \in 1..Len(df_gk) : df_gk[i].typeName # PyStr("SavedShot")

\* C23 witness: the table holds a Save while a SavedShot carrying goal-mouth
\* and keeper qualifiers is in the shots table only.
C23_Witness ==
    /\ GkBuilt
    /\ \E i \in 1..Len(df_gk) : df_gk[i].typeName = PyStr("Save")
    /\ \E j \in 1..Len(df_shots) :
            /\ df_shots[j].typeName = PyStr("SavedShot")
            /\ Carries(df_shots[j], "KeeperSaved")

\* The outcome and type texts of a row, "" when the event has none.
OutcomeText(row) == IF row.outcomeName.t = "str" THEN row.outcomeName.v ELSE ""
TypeText(row) == IF row.typeName.t = "str" THEN row.typeName.v ELSE ""

\* The decision order of shot_outcome in reference terms.
DecidedOutcome(row) ==
    IF TypeText(row) = "Goal" \/ Carries(row, "Goal") THEN "Goal"
    ELSE IF TypeText(row) = "BlockedShot" \/ Carries(row, "BlockedPass") THEN "Blocked"
    ELSE IF TypeText(row) = "SavedShot" \/ ContainsSaved(OutcomeText(row)) THEN "Saved"
    ELSE IF TypeText(row) = "ShotOnPost" \/ Carries(row, "HitWoodWork") THEN "Post"
    ELSE IF TypeText(row) = "MissedShots" \/ ContainsOffTarget(OutcomeText(row))
                \/ ContainsMissed(OutcomeText(row)) THEN "Missed"
    ELSE IF OutcomeText(row) # "" THEN OutcomeText(row)
    ELSE IF TypeText(row) # "" THEN TypeText(row)
    ELSE "Unknown"

\* C24: shot_outcome is decided by the first matching rule, in the order
\* Goal, Blocked, Saved, Post, Missed, else the raw outcome text, else the
\* raw type text, and Unknown when the event has neither text.
C24_OutcomeByFirstMatchingRule ==
    stage \in ShotStages =>
        \A i \in 1..Len(df_shots) :
            df_shots[i].shot_outcome
                = PyStr(DecidedOutcome(SelectSeq(df_events, is_shot_row)[i]))

\* The values of the alias qualifiers of a row that read as an integer.
AliasIntegers(row) ==
    { SafeInt(Quals(row)[i].v["value"]) :
        i \in { j \in 1..Len(Quals(row)) :
                    /\ QTag(Quals(row)[j]) \in RelatedPassAliases
                    /\ "value" \in DOMAIN Quals(row)[j].v
                    /\ SafeInt(Quals(row)[j].v["value"]) # PyNone } }

\* C28: a shot's related_pass_eventId is the integer value of one of its
\* alias qualifiers whenever at least one of them carries an
\* integer-readable value, and null otherwise.
C28_RelatedPassFromAnyAlias ==
    stage \in ShotStages =>
        \A i \in 1..Len(df_shots) :
            IF AliasIntegers(df_shots[i]) # {}
                THEN df_shots[i].related_pass_eventId \in AliasIntegers(df_shots[i])
                ELSE df_shots[i].related_pass_eventId = PyNone

\* The pairs of the parallel slot and player-id arrays of a record, when
\* they are two lists of one positive length.
ArrayPairs(f) ==
    LET slots == PyOr(PyOr(Get(f, "formationSlots"), Get(f, "slots")), PyList(<<>>))
        pids == PyOr(Get(f, "playerIds"), PyList(<<>>))
    IN IF slots.t = "list" /\ pids.t = "list"
            /\ Len(slots.v) = Len(pids.v) /\ Len(slots.v) > 0
       THEN Zip(slots.v, pids.v) ELSE <<>>

\* The mapping a strict fallback chain returns: each shape read on its own,
\* the first non-empty one taken.
FirstShapeMap(f) ==
    LET e == [err |-> FALSE, map |-> <<>>]
        m1 == PairLoop(ArrayPairs(f), e).map
        m2 == PairLoop(SlotToPlayerPairs(f, "formationSlotToPlayerIdMap")
                        \o SlotToPlayerPairs(f, "slotToPlayerIdMap"), e).map
        m3 == PairLoop(PlayerToSlotPairs(f, "playerIdToFormationSlotMap")
                        \o PlayerToSlotPairs(f, "playerToSlotMap"), e).map
        m4 == IF Get(f, "slots").t = "list" THEN PairLoop(SlotEntryPairs(f), e).map ELSE <<>>
    IN IF m1 # <<>> THEN m1 ELSE IF m2 # <<>> THEN m2 ELSE IF m3 # <<>> THEN m3 ELSE m4

\* C25: the slot-to-player mapping of each formation comes from exactly one
\* source shape, the first in the order arrays, slot-to-player map,
\* player-to-slot map, slot/player pair list that yields a non-empty
\* mapping; no entry of a later shape is added to it or overwrites it.
C25_MappingFromFirstShapeOnly ==
    FormBuilt =>
        \A k \in 1..Len(FormationsIn(payload, "home")) :
            LET f == FormationsIn(payload, "home")[k] IN
            { <<df_pos[i].slot, df_pos[i].player_id>> :
                    i \in SegmentSlots("home", Get(f, "startMinuteExpanded").v) }
                = { <<FirstShapeMap(f)[j][1], FirstShapeMap(f)[j][2]>> :
                    j \in 1..Len(FirstShapeMap(f)) }

\* The run horizon: one past the largest expanded minute of the events.
Horizon == SetMax({0} \cup {df_events[i].expandedMinute.v :
                i \in {j \in 1..Len(df_events) : df_events[j].expandedMinute.t = "int"}}) + 1

\* The segments of the same side and period that start after segment i.
LaterSegments(i) ==
    {j \in 1..Len(df_form) :
        /\ df_form[j].team_side = df_form[i].team_side
        /\ df_form[j].period = df_form[i].period
        /\ df_form[j].start_expanded.v > df_form[i].start_expanded.v}

\* C26: every formation segment ends where the next segment of its team
\* starts, and the last segment of a period ends at the run horizon.
C26_SegmentEndsAtNextStart ==
    FormBuilt =>
        \A i \in 1..Len(df_form) :
            IF LaterSegments(i) = {}
                THEN df_form[i].end_expanded.v = Horizon
                ELSE \E j \in LaterSegments(i) :
                        /\ df_form[i].end_expanded = df_form[j].start_expanded
                        /\ \A h \in LaterSegments(i) :
                                df_form[j].start_expanded.v <= df_form[h].start_expanded.v

\* C27: every formation segment has end > start or ends at the run horizon,
\* and its duration is never negative.
C27_DurationNeverNegative ==
    FormBuilt =>
        \A i \in 1..Len(df_form) :
            /\ \/ df_form[i].end_expanded.v > df_form[i].start_expanded.v
               \/ df_form[i].end_expanded.v = Horizon
            /\ df_form[i].duration_expanded.v >= 0

\* No formation record of either side has a recognised period.
NoFormationKept ==
    \A side \in {"home", "away"} :
        \A k \in 1..Len(FormationsIn(payload, side)) :
            Get(FormationsIn(payload, side)[k], "period") \notin {PyInt(1), PyInt(2), PyInt(16)}

\* C29: when no formation record of either team is kept, the formations and
\* positions tables are built empty without an exception and the run goes
\* on to the remaining tables.
C29_NoFormationsGivesEmptyTables ==
    NoFormationKept =>
        /\ failure # SortKeyError
        /\ FormBuilt => df_form = <<>> /\ df_pos = <<>>

(***************************************************************************)
(* 4.6  save_all_tables: the files and the manifest, over successive runs  *)
(***************************************************************************)
\* Most runs of save_all_tables in one behaviour.
MaxRuns == 2

OutRoots == {"out1", "out2"}

\* base_dir: out_root / "MatchCenter" / comp_slug / season_slug / match_slug,
\* held as the values the path is made of.
BaseDir(root, p) ==
    LET mcd == McdOf(p) IN
    [ out_root |-> root,
      comp |-> PyOr(PyOr(Get(mcd, "competitionName"), Get(mcd, "tournamentName")),
                    PyStr("Competition")),
      season |-> PyOr(Get(mcd, "seasonName"), PyStr("Season")),
      start_time |-> PyOr(Get(mcd, "startTime"), PyStr("")),
      home |-> PyOr(Get(PyOr(Get(mcd, "home"), EmptyDict), "name"), PyStr("Home")),
      away |-> PyOr(Get(PyOr(Get(mcd, "away"), EmptyDict), "name"), PyStr("Away")),
      match_id |-> MatchIdOf(p) ]

\* The eleven _save calls, in call order.
SaveOrder ==
    << "match_meta", "players", "events", "events_shots", "events_passes",
       "events_defensive", "events_gk_actions", "formations_timeline",
       "player_positions_timeline", "score_timeline", "formations_timeline_scored" >>
TableNames == {SaveOrder[k] : k \in 1..Len(SaveOrder)}

\* The frame each _save call is handed.
TableOf(name) ==
    CASE name = "match_meta" -> df_match
      [] name = "players" -> df_players
      [] name = "events" -> df_events
      [] name = "events_shots" -> df_shots
      [] name = "events_passes" -> df_passes
      [] name = "events_defensive" -> df_def
      [] name = "events_gk_actions" -> df_gk
      [] name = "formations_timeline" -> df_form
      [] name = "player_positions_timeline" -> df_pos
      [] name = "score_timeline" -> df_score
      [] name = "formations_timeline_scored" -> df_form_scored

\* A path that holds no file, and a match directory just created.
NoFile == [t |-> "nofile", v |-> 0]
EmptyDir == [name \in TableNames \cup {"payload", "event_types"} |-> NoFile]

\* Mutant: the time of the run is written into every row.
EnsureMatchIdColStamped(df, match_id) ==
    [k \in 1..Len(df) |->
        [c \in DOMAIN df[k] \cup {"match_id", "created_at"} |->
            IF c = "created_at" THEN runs
            ELSE IF c = "match_id" THEN match_id ELSE df[k][c]]]

\* _ensure_match_id_col(df, match_id): the column is added when the frame
\* has none, and its null cells are filled.
EnsureMatchIdCol(df, match_id) ==
    [k \in 1..Len(df) |->
        [c \in DOMAIN df[k] \cup {"match_id"} |->
            IF c = "match_id"
                THEN IF "match_id" \in DOMAIN df[k] /\ ~IsNull(df[k]["match_id"])
                        THEN df[k]["match_id"] ELSE match_id
                ELSE df[k][c]]]

\* The pair of files of a table: df.to_json(orient="records") and
\* df_csv.to_csv(index=False), each a serialisation of the rows in order.
FilePair(df) == [t |-> "files", v |-> [json |-> df, csv |-> df]]

\* _sha1_of_file: equal for equal contents, distinct for distinct ones.
Sha1(content) == [t |-> "sha1", v |-> content]

\* _write_df_pair(df, base, out_json, out_csv, match_id): [n, file] with n
\* the returned count and file what the two paths hold afterwards, given
\* what they held before; an empty frame returns 0 and touches no path.
write_df_pair(df, before, match_id) ==
    IF df = <<>> THEN [n |-> 0, file |-> before]
    ELSE [n |-> Len(df), file |-> FilePair(EnsureMatchIdCol(df, match_id))]

\* manifest["tables"][name] after _save(name, df).
ManifestEntry(n, file) ==
    [ rows |-> n,
      json_sha1 |-> IF file = NoFile THEN PyNone ELSE Sha1(file.v.json),
      csv_sha1 |-> IF file = NoFile THEN PyNone ELSE Sha1(file.v.csv) ]

\* The match directory after the eleven _save calls and the payload and
\* event-type writes, given what it held before.
DirAfterSave(before, p) ==
    [name \in DOMAIN before |->
        IF name \in TableNames
            THEN write_df_pair(TableOf(name), before[name], MatchIdOf(p)).file
        ELSE IF name = "payload" THEN [t |-> "json", v |-> p]
        ELSE IF Truthy(Get(p, "matchCentreEventType"))
            THEN [t |-> "json", v |-> Get(p, "matchCentreEventType")]
        ELSE before[name]]

\* The manifest dict save_all_tables builds and writes to manifest.json.
ManifestOf(before, p) ==
    [ match_id |-> MatchIdOf(p),
      created_at |-> runs,
      tables |-> [name \in TableNames |->
                    ManifestEntry(write_df_pair(TableOf(name), before[name], MatchIdOf(p)).n,
                                  DirAfterSave(before, p)[name])],
      payload |-> Sha1(p),
      event_types |-> IF Truthy(Get(p, "matchCentreEventType"))
                        THEN Sha1(Get(p, "matchCentreEventType")) ELSE PyNone ]

\* save_all_tables(payload, out_root) is entered: the output directories
\* are created if they are not there.
StartRun(p, root) ==
    /\ bpc = "idle"
    /\ stage \in {"idle", "written", "aborted"}
    /\ runs < MaxRuns
    /\ runs' = runs + 1
    /\ out_root' = root
    /\ payload' = p
    /\ stage' = "start"
    /\ df_match' = <<>> /\ df_players' = <<>> /\ df_events' = <<>>
    /\ df_shots' = <<>> /\ df_passes' = <<>>
    /\ df_def' = <<>> /\ df_gk' = <<>> /\ df_form' = <<>> /\ df_pos' = <<>>
    /\ df_score' = <<>> /\ df_form_scored' = <<>> /\ failure' = "none"
    /\ files' = IF BaseDir(root, p) \in DOMAIN files THEN files
                ELSE files @@ (BaseDir(root, p) :> EmptyDir)
    /\ UNCHANGED <<manifest, history>>
    /\ UNCHANGED <<exVars, ldVars, btVars>>

\* The eleven _save calls, payload.json, event_types.json and manifest.json.
WriteTables ==
    /\ stage = "scored"
    /\ stage' = "written"
    /\ LET d == BaseDir(out_root, payload) IN
        /\ files' = [files EXCEPT ![d] = DirAfterSave(files[d], payload)]
        /\ manifest' = (d :> ManifestOf(files[d], payload)) @@ manifest
        /\ history' = (d :> Append(IF d \in DOMAIN history THEN history[d] ELSE <<>>, payload))
                        @@ history
    /\ UNCHANGED <<out_root, runs>>
    /\ UNCHANGED <<payload, df_match, df_players, df_events, df_shots, df_passes>>
    /\ UNCHANGED <<dvVars, exVars, ldVars, btVars>>

(* ---- payloads of successive runs for one match ---- *)

RunFormations == PyList(<< Formation(1, 0, <<PyInt(1)>>, <<PyInt(1)>>) >>)

\* The match scraped with a goal, a tackle and a save; scraped again with
\* the goal struck off; with no event yet; and with no formation record.
RunPayloads ==
    { SavePayload(<< Ev(PyInt(1), PyInt(HomeTeamId), 9, "Pass", "Successful", PyList(<<>>)),
                     Ev(PyInt(5), PyInt(HomeTeamId), 10, "Goal", "Successful",
                            PyList(<<Qual("Assist", PyNumStr(1))>>)),
                     Ev(PyInt(9), PyInt(AwayTeamId), 13, "Tackle", "Successful", Missing),
                     Ev(PyInt(8), PyInt(AwayTeamId), 15, "Save", "Successful", PyList(<<>>)) >>,
                  RunFormations, RunFormations),
      SavePayload(<< Ev(PyInt(1), PyInt(HomeTeamId), 9, "Pass", "Successful", PyList(<<>>)),
                     Ev(PyInt(9), PyInt(AwayTeamId), 13, "Tackle", "Successful", Missing),
                     Ev(PyInt(8), PyInt(AwayTeamId), 15, "Save", "Successful", PyList(<<>>)) >>,
                  RunFormations, RunFormations),
      SavePayload(<<>>, RunFormations, RunFormations),
      SavePayload(<<>>, Missing, Missing) }

InitRuns ==
    /\ IdleExtract
    /\ IdleLoad
    /\ IdleTables
    /\ IdleEnv

NextRuns ==
    \/ \E p \in RunPayloads, root \in OutRoots : StartRun(p, root)
    \/ NextSave
    \/ WriteTables

SpecRuns == InitRuns /\ [][NextRuns]_vars

C22_ManifestDescribesLatestRun ==
    stage = "written" =>
        \A name \in TableNames :
            LET e == manifest[BaseDir(out_root, payload)].tables[name] IN
            /\ e.rows = Len(TableOf(name))
            /\ e.json_sha1 = IF TableOf(name) = <<>> THEN PyNone
                             ELSE Sha1(EnsureMatchIdCol(TableOf(name), MatchIdOf(payload)))

(***************************************************************************)
(* 4.7  Batch run: process_from_csv                                        *)
(*                                                                         *)
(* A csv row is held with what its match will meet: fetch is the exception *)
(* the browser call raises ("none" when it returns), page the markup it    *)
(* returns, save the exception the payload makes save_all_tables leave     *)
(* with ("none" when the tables are written).                              *)
(***************************************************************************)
\* Most rows of the csv file.
MaxRows == 3

\* n = len(df) if limit is None else min(limit, len(df))
RowsToAttempt(lim, len) ==
    IF lim = PyNone THEN len ELSE IF lim.v < len THEN lim.v ELSE len

\* url = row.get("match_centre_url") or row.get("match_center_url")
\*       or row.get("match__centre_url")
UrlOf(row) ==
    PyOr(PyOr(Get(row.cells, "match_centre_url"), Get(row.cells, "match_center_url")),
         Get(row.cells, "match__centre_url"))

\* process_one_match(url=url, match_id=mid, ...) with no html_path:
\* [err, res], res the dict save_all_tables returns.
process_one_match(url, mid, fetch, page, save) ==
    IF ~Truthy(url) /\ ~Truthy(mid) THEN [err |-> "ValueError", res |-> PyNone]
    ELSE IF fetch # "none" THEN [err |-> fetch, res |-> PyNone]
    ELSE LET r == load_payload_from_html_text(page) IN
         IF r.err # "none" THEN [err |-> r.err, res |-> PyNone]
         ELSE IF ~PayloadUsable(r.payload) THEN [err |-> "RuntimeError", res |-> PyNone]
         ELSE IF save # "none" THEN [err |-> save, res |-> PyNone]
         ELSE [err |-> "none", res |-> PyDict("out_dir" :> r.payload.matchId)]

ProcessRow(row) ==
    process_one_match(UrlOf(row), SafeInt(Get(row.cells, "match_id")),
                      row.fetch, row.page, row.save)

\* Mutant: only the payload-not-found error is handled.
CaughtOnlyRuntimeError(err) == err = "RuntimeError"

\* except Exception: every exception process_one_match can leave with is
\* an Exception.
Caught(err) ==
    err \in {"ValueError", "RuntimeError", "JSONDecodeError", "WebDriverException",
             PlayerIdError, SortKeyError, CastError, MergeKeyError}

\* One pass of the loop body for row row_idx: the call, the OK or ERROR
\* line, the append, and the pauses.
BatchRow ==
    /\ bpc = "loop"
    /\ row_idx <= RowsToAttempt(limit, Len(csv_rows))
    /\ LET r == ProcessRow(csv_rows[row_idx]) IN
        /\ attempts' = Append(attempts, [row |-> row_idx, ok |-> r.err = "none"])
        /\ results' = IF r.err = "none" THEN Append(results, r.res) ELSE results
        /\ bpc' = IF r.err = "none" \/ Caught(r.err) THEN "loop" ELSE "raised"
    /\ row_idx' = row_idx + 1
    /\ UNCHANGED <<csv_rows, limit>>
    /\ UNCHANGED <<exVars, ldVars, tbVars, rnVars>>

\* return results
BatchReturn ==
    /\ bpc = "loop"
    /\ row_idx > RowsToAttempt(limit, Len(csv_rows))
    /\ bpc' = "returned"
    /\ UNCHANGED <<csv_rows, limit, row_idx, attempts, results>>
    /\ UNCHANGED <<exVars, ldVars, tbVars, rnVars>>

(* ---- csv files of the batch runs ---- *)

PageWith(args, mid, mcd) ==
    [ args |-> args, mid |-> mid, mcd |-> mcd, evt |-> "absent", formdict |-> "absent",
      tl |-> [k \in TimelineKeys |-> "absent"], legacy |-> "absent" ]

CsvRow(url, mid, fetch, page, save) ==
    [ cells |-> PyDict(Entry("match_centre_url", url) @@ Entry("match_id", mid)),
      fetch |-> fetch, page |-> page, save |-> save ]

\* Rows whose match is written (two matches), whose payload makes the
\* formation builder raise, with neither a url nor a match id, whose page
\* has no marker, whose browser call raises, and whose literal is no JSON.
CsvRows ==
    { CsvRow(PyStr("u7"), PyInt(7), "none",
             PageWith(<<LBrace, RBrace>>, PyInt(7), "ok"), "none"),
      CsvRow(PyStr("u0"), PyNumStr(0), "none",
             PageWith(<<LBrace, RBrace>>, PyInt(0), "ok"), "none"),
      CsvRow(PyStr("u7"), PyInt(7), "none",
             PageWith(<<LBrace, RBrace>>, PyInt(7), "ok"), SortKeyError),
      CsvRow(Missing, PyStr("abc"), "none", PageWith(<<>>, PyNone, "absent"), "none"),
      CsvRow(Missing, PyInt(7), "none", PageWith(<<>>, PyNone, "absent"), "none"),
      CsvRow(PyStr("u7"), Missing, "WebDriverException",
             PageWith(<<>>, PyNone, "absent"), "none"),
      CsvRow(PyStr("u7"), PyInt(7), "none",
             PageWith(<<LBrace, RBrace>>, PyInt(7), "badjson"), "none") }

Limits == {PyNone} \cup {PyInt(k) : k \in 0..MaxRows}

InitBatch ==
    /\ IdleExtract
    /\ IdleLoad
    /\ IdleTables
    /\ IdleRuns
    /\ csv_rows \in SeqsUpTo(CsvRows, MaxRows)
    /\ limit \in Limits
    /\ row_idx = 1
    /\ attempts = <<>>
    /\ results = <<>>
    /\ bpc = "loop"

NextBatch == BatchRow \/ BatchReturn

SpecBatch == InitBatch /\ [][NextBatch]_vars

(* ---- reference notions used to state the batch contract ---- *)

\* The number of rows the batch is to take: all of them, or the first
\* limit of them.
FirstN ==
    IF limit = PyNone \/ limit.v > Len(csv_rows) THEN Len(csv_rows) ELSE limit.v

\* The rows among the first k that process_one_match returns for.
RECURSIVE ResultsOfFirst(_)
ResultsOfFirst(k) ==
    IF k = 0 THEN <<>>
    ELSE IF ProcessRow(csv_rows[k]).err = "none"
            THEN Append(ResultsOfFirst(k - 1), ProcessRow(csv_rows[k]).res)
            ELSE ResultsOfFirst(k - 1)

\* C30: in a batch run every one of the first n rows is attempted exactly
\* once in row order, a failure while processing a row never keeps the
\* following rows from being processed, and the returned list holds exactly
\* one result per successfully processed row, in row order.
C30_BatchAttemptsEveryRowInOrder ==
    /\ bpc # "raised"
    /\ Len(attempts) <= FirstN
    /\ \A k \in 1..Len(attempts) : attempts[k].row = k
    /\ results = ResultsOfFirst(Len(attempts))
    /\ bpc = "returned" => Len(attempts) = FirstN

\* C30 witness: the batch has returned after a row that failed was
\* followed by a row that was processed, with a row beyond the limit left
\* alone.
C30_Witness ==
    /\ bpc = "returned"
    /\ Len(attempts) < Len(csv_rows)
    /\ \E j, k \in 1..Len(attempts) : j < k /\ ~attempts[j].ok /\ attempts[k].ok
    /\ Len(results) >= 1

====
